---- MODULE Spec2Model ----
(***************************************************************************)
(* CubeChip-SDL: the frame pacer (FrameLimiter), the home directory        *)
(* manager's file verification (HomeDirManager::verifyFile) and the host   *)
(* loop (VM_Host::runHost with prepareGuest and eventLoopSDL).             *)
(*                                                                         *)
(* Time is counted in whole milliseconds, frame rates in tenths of a Hertz *)
(* (the source holds both in doubles).                                     *)
(***************************************************************************)
EXTENDS Integers, Sequences, FiniteSets, TLC

(***************************************************************************)
(* Bounds of the model.                                                    *)
(***************************************************************************)
\* the pacer's clock stops advancing at this many milliseconds
MaxTime == 9
\* the longest single stall, in milliseconds, besides a stall of one period
MaxStep == 3
\* the most time that passes between the two clock reads of one check
MaxSlip == 1
\* the most platform events one call of eventLoopSDL finds queued
MaxEvents == 1
\* the largest pixel-scale multiplier the video service allows
MaxMultiplier == 2

VARIABLES
    \* ---- the frame pacer
    Frame,       \* the FrameLimiter object (FrameLimiter.hpp:21-30)
    now,         \* std::chrono::steady_clock::now(), in ms
    flRet,       \* how the last isValidFrame call ended: "none" before any
                 \* call and after a reconfiguration, "first" (the
                 \* skipFirstPass return), "valid", "wait" (false)
    flLast       \* what the last isValidFrame call saw when it began

flVars == <<Frame, now, flRet, flLast>>

VARIABLES
    \* ---- the home directory manager and the dialect detector
    HDM,         \* the HomeDirManager's program descriptor
    sEmuCore,    \* GameFileChecker::sEmuCore, the held dialect tag
    sErrorMsg,   \* GameFileChecker::sErrorMsg, the pending rejection reason
    vfLast,      \* the last verifyFile call: its result, whether it called
                 \* the validator, and the validator's answer
    lastGood     \* the descriptor of the last file a validator accepted

hdmVars == <<HDM, sEmuCore, sErrorMsg, vfLast, lastGood>>

VARIABLES
    \* ---- the host
    pc,               \* where VM_Host stands: "ctor", "runHost", then in the
                      \* loop "gate", "events", "controls", and "exit"
                      \* once runHost has returned
    exitStatus,       \* the value runHost returned, "running" before
    kbCur,            \* the keys down now (the platform's keyboard state)
    kbPrev,           \* the keys down at the last kb.updateCopy()
    doBench,          \* VM_Host::_doBench
    Guest,            \* the VM_Guest: the dialect its core was built for
                      \* and whether it is stopped
    frameMultiplier,  \* the video service's pixel-scale multiplier
    trace,            \* the calls made since the frame gate last opened
    lastEvent,        \* the event this call of eventLoopSDL handled last
    nEvents           \* the events handled by this call of eventLoopSDL

hostVars == <<pc, exitStatus, kbCur, kbPrev, doBench, Guest, frameMultiplier,
              trace, lastEvent, nEvents>>

VARIABLES
    \* ---- the calls checked one at a time
    flRate,           \* the frame rate setFreq was last given, in tenths of Hz
    gfcLast,          \* the detector's last call: its arguments, its answer
                      \* and the tag and the reason held before it

    MB,               \* the MemoryBanks: four display planes, the foreground,
                      \* background and collision buffers, the palette
    VM,               \* what MemoryBanks reads of its VM_Guest
    mbLast,           \* the MemoryBanks call made: its arguments, and MB
                      \* before it
    Grid,             \* a Map2D buffer
    gridLog,          \* the calls made on it, each with the buffer before it
    rowA,             \* a MapRow
    rowB,             \* the row it is combined with
    rowLast,          \* the MapRow operator applied: rowA before it, the row
                      \* returned, whether it threw
    View,             \* a Map2D of pointers
    ViewBase,         \* what it is seated on
    viewLast          \* the setView call made: its arguments, and View
                      \* before it

mbVars == <<MB, VM, mbLast>>
mapVars == <<Grid, gridLog>>
rowVars == <<rowA, rowB, rowLast>>
viewVars == <<View, ViewBase, viewLast>>
libVars == <<flRate, gfcLast, mbVars, mapVars, rowVars, viewVars>>
\* all of them but the pacer's, but the detector's, but the MemoryBanks',
\* but the buffer's, but the rows'
libButRate == <<gfcLast, mbVars, mapVars, rowVars, viewVars>>
libButGfc == <<flRate, mbVars, mapVars, rowVars, viewVars>>
libButMB == <<flRate, gfcLast, mapVars, rowVars, viewVars>>
libButMap == <<flRate, gfcLast, mbVars, rowVars, viewVars>>
libButRow == <<flRate, gfcLast, mbVars, mapVars, viewVars>>
libButView == <<flRate, gfcLast, mbVars, mapVars, rowVars>>

vars == <<flVars, hdmVars, hostVars, libVars>>

(***************************************************************************)
(* GameFileChecker (the dialect detector)                                  *)
(***************************************************************************)
\* GameCoreType::INVALID
INVALID == "INVALID"

\* enum class GameCoreType
GameCoreType ==
    {INVALID, "XOCHIP", "CHIP8E", "CHIP8X", "CHIP8_2P", "CHIP8_4P",
     "CHIP8_LEGACY", "SCHIP_LEGACY", "CHIP8_MODERN", "SCHIP_MODERN",
     "CHIP8X_HIRES", "CHIP8X_SCHIP", "HWCHIP64", "MEGACHIP", "GIGACHIP"}

\* a test that records its dialect whether it passes or not
testGameAlways(core, pass, type) == type

\* GameFileChecker::testGame(pass, type): the tag it leaves
testGame(core, pass, type) == IF pass THEN type ELSE core

\* GameFileChecker::hasCore()
hasCore(core) == core # INVALID

\* GameFileChecker::getCore()
getCore(core) == core

\* a program of more than one byte stands for one too large for the memory of
\* the dialect its extension names
FitsDialect(size) == size <= 1

\* GameFileChecker::validate(size, type, sha1): a recognised extension is
\* tested and, on a pass, its tag recorded; anything else is rejected with a
\* reason
validate(core, err, size, type, sha1) ==
    IF type = ".xo8"
    THEN [ret |-> TRUE, sEmuCore |-> testGame(core, TRUE, "XOCHIP"),
          sErrorMsg |-> err]
    ELSE IF type = ".ch8"
    THEN [ret |-> FitsDialect(size),
          sEmuCore |-> testGame(core, FitsDialect(size), "CHIP8_MODERN"),
          sErrorMsg |-> IF FitsDialect(size) THEN err ELSE "file too large"]
    ELSE [ret |-> FALSE, sEmuCore |-> core, sErrorMsg |-> "unknown file type"]

\* a read of the reason that leaves it in place
getErrorKeeps(err) == [ret |-> err, sErrorMsg |-> err]

\* GameFileChecker::getError(): return std::move(sErrorMsg)
getError(err) == [ret |-> err, sErrorMsg |-> ""]

\* GameFileChecker::delCore()
delCore == [sEmuCore |-> INVALID, sErrorMsg |-> ""]

\* the reasons a failed validation records
Reasons == {"unknown file type", "file too large"}

NoGfcCall ==
    [op |-> "none", pass |-> FALSE, type |-> INVALID, ret |-> "",
     core |-> INVALID, err |-> ""]

\* static GameCoreType sEmuCore; static std::string sErrorMsg
GfcInit ==
    /\ sEmuCore = INVALID
    /\ sErrorMsg = ""
    /\ gfcLast = NoGfcCall

\* testGame(pass, type), as validate calls it for a dialect
TestGame ==
    \E pass \in BOOLEAN, type \in GameCoreType :
        /\ sEmuCore' = testGame(sEmuCore, pass, type)
        /\ gfcLast' = [op |-> "testGame", pass |-> pass, type |-> type,
                       ret |-> pass, core |-> sEmuCore, err |-> sErrorMsg]
        /\ UNCHANGED <<libButGfc, sErrorMsg, HDM, vfLast, lastGood, flVars,
                       hostVars>>

\* a failed validation records its reason
RecordError ==
    \E reason \in Reasons :
        /\ sErrorMsg' = reason
        /\ gfcLast' = [op |-> "validate", pass |-> FALSE, type |-> INVALID,
                       ret |-> FALSE, core |-> sEmuCore, err |-> sErrorMsg]
        /\ UNCHANGED <<libButGfc, sEmuCore, HDM, vfLast, lastGood, flVars,
                       hostVars>>

\* getError()
ReadError ==
    /\ sErrorMsg' = getError(sErrorMsg).sErrorMsg
    /\ gfcLast' = [op |-> "getError", pass |-> FALSE, type |-> INVALID,
                   ret |-> getError(sErrorMsg).ret, core |-> sEmuCore,
                   err |-> sErrorMsg]
    /\ UNCHANGED <<libButGfc, sEmuCore, HDM, vfLast, lastGood, flVars,
                   hostVars>>

\* delCore()
DelCore ==
    /\ sEmuCore' = delCore.sEmuCore
    /\ sErrorMsg' = delCore.sErrorMsg
    /\ gfcLast' = [op |-> "delCore", pass |-> FALSE, type |-> INVALID,
                   ret |-> FALSE, core |-> sEmuCore, err |-> sErrorMsg]
    /\ UNCHANGED <<libButGfc, HDM, vfLast, lastGood, flVars, hostVars>>

(***************************************************************************)
(* HomeDirManager                                                          *)
(***************************************************************************)
\* a path is <<directory, stem, extension>>; const char* nullptr is NullPath
NullPath == <<>>
Paths == { <<"roms", "pong", ".ch8">>, <<"roms", "maze", ".xo8">>,
           <<"home", "pong", ".txt">> }

\* fs::path::string(), filename(), stem(), extension()
PathString(fspath) == fspath
PathFilename(fspath) == SubSeq(fspath, 2, 3)
PathStem(fspath) == fspath[2]
PathExtension(fspath) == fspath[3]

\* the bytes a file holds: none, one byte (two such files), two bytes
Contents == { <<>>, <<1>>, <<2>>, <<1, 2>> }

\* SHA1::from_file: the digest stands for the bytes it was computed from
SHA1FromFile(content) == <<"sha1">> \o content

\* what the file system answers for a dropped path: fs::exists and
\* fs::is_regular_file (stat), std::ifstream::is_open and good, and whether
\* fs::file_size sets its error code
FileStates ==
    { [stat |-> "absent", opens |-> FALSE, good |-> FALSE, sizeError |-> TRUE],
      [stat |-> "directory", opens |-> FALSE, good |-> FALSE, sizeError |-> TRUE] }
    \cup { [stat |-> "regular", opens |-> o, good |-> g, sizeError |-> e] :
           o \in BOOLEAN, g \in BOOLEAN, e \in BOOLEAN }
FileInputs ==
    { [path |-> NullPath, fs |-> [stat |-> "absent", opens |-> FALSE,
                                  good |-> FALSE, sizeError |-> TRUE],
       content |-> <<>>] }
    \cup { x \in [path : Paths, fs : FileStates, content : Contents] :
             /\ x.fs.good => x.fs.opens
             /\ x.fs.stat # "regular" => x.content = <<>> }

\* the validators verifyFile is handed: the dialect detector's, and two that
\* answer the same whatever the file
Validators == {"GameFileChecker::validate", "acceptAll", "rejectAll"}
CallValidator(v, core, err, size, type, sha1) ==
    IF v = "GameFileChecker::validate" THEN validate(core, err, size, type, sha1)
    ELSE [ret |-> (v = "acceptAll"), sEmuCore |-> core, sErrorMsg |-> err]

\* the descriptor's default member initialisers (HomeDirManager.hpp)
EmptyDescriptor ==
    [path |-> <<>>, file |-> <<>>, name |-> "", type |-> "", sha1 |-> <<>>,
     size |-> 0]

\* a reset that clears nothing
resetNothing(D) == D

\* HomeDirManager::reset()
reset(D) ==
    [D EXCEPT !.path = <<>>, !.name = "", !.type = "", !.sha1 = <<>>, !.size = 0]

\* verifyFile's early returns, in the order of its checks; "" when none is
\* taken
EmptyCheckMissing(fileSize) == FALSE
IsEmptyFile(fileSize) == fileSize = 0
EarlyReturn(f) ==
    IF f.path = NullPath THEN "null path"
    ELSE IF f.fs.stat = "absent" \/ f.fs.stat # "regular"
    THEN "Unable to use locate path"
    ELSE IF ~f.fs.opens THEN "Failed to open file"
    ELSE IF ~f.fs.good THEN "File is not readable"
    ELSE IF f.fs.sizeError THEN "Unable to access file"
    ELSE IF IsEmptyFile(Len(f.content)) THEN "File is empty"
    ELSE ""

\* verifyFile's commit: the six assignments under if (result)
CommitTypeAlways(D, result, fspath, tempPath, tempType, tempSHA1, fileSize) ==
    IF result
    THEN [path |-> tempPath, file |-> PathFilename(fspath),
          name |-> PathStem(fspath), type |-> tempType, sha1 |-> tempSHA1,
          size |-> fileSize]
    ELSE [D EXCEPT !.type = tempType, !.sha1 = tempSHA1]
Commit(D, result, fspath, tempPath, tempType, tempSHA1, fileSize) ==
    IF result
    THEN [path |-> tempPath, file |-> PathFilename(fspath),
          name |-> PathStem(fspath), type |-> tempType, sha1 |-> tempSHA1,
          size |-> fileSize]
    ELSE D

\* HomeDirManager::verifyFile(validate, filepath): the descriptor and the
\* detector's state it leaves, and the value it returns
verifyFile(D, core, err, v, f) ==
    IF EarlyReturn(f) # ""
    THEN [HDM |-> D, sEmuCore |-> core, sErrorMsg |-> err, ret |-> FALSE,
          validated |-> FALSE, answer |-> FALSE, stage |-> EarlyReturn(f)]
    ELSE LET fspath == f.path
             fileSize == Len(f.content)
             tempPath == PathString(fspath)
             tempType == PathExtension(fspath)
             tempSHA1 == SHA1FromFile(f.content)
             r == CallValidator(v, core, err, fileSize, tempType, tempSHA1)
         IN  [HDM |-> Commit(D, r.ret, fspath, tempPath, tempType, tempSHA1,
                             fileSize),
              sEmuCore |-> r.sEmuCore, sErrorMsg |-> r.sErrorMsg,
              ret |-> r.ret, validated |-> TRUE, answer |-> r.ret,
              stage |-> "validated"]

\* the descriptor of a file, as the spec lists it
DescriptorOf(f) ==
    [path |-> f.path, file |-> <<f.path[2], f.path[3]>>, name |-> f.path[2],
     type |-> f.path[3], sha1 |-> SHA1FromFile(f.content),
     size |-> Len(f.content)]

NoCall == [ret |-> FALSE, validated |-> FALSE, answer |-> FALSE,
           stage |-> "never called", validator |-> "", null |-> FALSE,
           fs |-> [stat |-> "regular", opens |-> TRUE, good |-> TRUE,
                   sizeError |-> FALSE],
           size |-> 1]

HDMInit ==
    /\ HDM = EmptyDescriptor
    /\ sEmuCore = INVALID
    /\ sErrorMsg = ""
    /\ vfLast = NoCall
    /\ lastGood = EmptyDescriptor

HDMParked == HDMInit

\* one call of verifyFile, with any validator, on any path
VerifyFile ==
    \E v \in Validators, f \in FileInputs :
        LET r == verifyFile(HDM, sEmuCore, sErrorMsg, v, f) IN
        /\ HDM' = r.HDM
        /\ sEmuCore' = r.sEmuCore
        /\ sErrorMsg' = r.sErrorMsg
        /\ vfLast' = [ret |-> r.ret, validated |-> r.validated,
                      answer |-> r.answer, stage |-> r.stage, validator |-> v,
                      null |-> (f.path = NullPath), fs |-> f.fs,
                      size |-> Len(f.content)]
        /\ lastGood' = IF r.validated /\ r.answer THEN DescriptorOf(f)
                       ELSE lastGood
        /\ UNCHANGED <<libVars, flVars, hostVars>>

\* the detector is cleared and its error read between calls
ClearCore ==
    /\ sEmuCore' = delCore.sEmuCore
    /\ sErrorMsg' = delCore.sErrorMsg
    /\ UNCHANGED <<libVars, HDM, vfLast, lastGood, flVars, hostVars>>

GetError ==
    /\ sErrorMsg' = getError(sErrorMsg).sErrorMsg
    /\ UNCHANGED <<libVars, HDM, sEmuCore, vfLast, lastGood, flVars, hostVars>>


(***************************************************************************)
(* FrameLimiter                                                            *)
(***************************************************************************)
\* a clamp with no upper limit
ClampBelowOnly(x, lo, hi) == IF x < lo THEN lo ELSE x

\* std::clamp
Clamp(x, lo, hi) == IF x < lo THEN lo ELSE IF x > hi THEN hi ELSE x

\* std::clamp(framerate, 0.5, 1000.0), in tenths of a Hertz
MinRate10 == 5
MaxRate10 == 10000
\* 1000.0 ms, over a rate in tenths of a Hertz
Millis10 == 10000

\* timeFrequency = 1000.0 / std::clamp(framerate, 0.5, 1000.0)
Period(rate10) == Millis10 \div Clamp(rate10, MinRate10, MaxRate10)

\* the frame rates the pacer is configured with here: 0.5 Hz, 250 Hz,
\* 500 Hz, 1000 Hz (each divides 1000 ms exactly)
FLRates == {5, 2500, 5000, 10000}

\* the default member initialisers of FrameLimiter
FrameLimiterFields ==
    [ initTimeCheck |-> FALSE,   \* forces timestamp update on first check only
      skipFirstPass |-> FALSE,   \* forces valid frame return on first check only
      skipLostFrame |-> FALSE,   \* forces frameskip if timeOvershoot > timeFrequency
      lastFrameLost |-> FALSE,   \* missed frame indicator when frameskip is enabled
      timeFrequency |-> 0,       \* holds time (ms) per unit Hertz
      timeOvershoot |-> 0,       \* holds time remainder (ms) from last successful check
      timeVariation |-> 0,       \* holds time difference between last check and now
      timePastFrame |-> 0,       \* holds timestamp of the last frame's check
      validFrameCnt |-> 0 ]      \* counter of successful frame checks performed

\* FrameLimiter::setFreq(framerate, firstpass, lostframe)
setFreq(F, rate10, firstpass, lostframe) ==
    [F EXCEPT !.timeFrequency = Period(rate10),
              !.skipFirstPass = firstpass,
              !.skipLostFrame = lostframe]

\* FrameLimiter::setLimiter(framerate): firstpass and lostframe default to
\* std::nullopt and the flags keep their values
setLimiter(F, rate10) == setFreq(F, rate10, F.skipFirstPass, F.skipLostFrame)

\* FrameLimiter::FrameLimiter(framerate, firstpass, lostframe)
FrameLimiter(rate10, firstpass, lostframe) ==
    setFreq(FrameLimiterFields, rate10, firstpass, lostframe)

\* line 39: skipFirstPass = false
DisarmNotDone == TRUE
DisarmedFlag == FALSE

\* lines 52-55: the overshoot a successful check records
OvershootAlwaysCarried(variation, frequency, lostframe) == variation - frequency
OvershootAlwaysDropped(variation, frequency, lostframe) == variation % frequency
NewOvershoot(variation, frequency, lostframe) ==
    IF lostframe THEN variation % frequency   \* std::fmod
    ELSE variation - frequency

\* FrameLimiter::isValidFrame(): the object it leaves and the value it
\* returns; t is the clock at its first read, slip the time that passes up to
\* its second read
isValidFrame(F, t, slip) ==
    LET past == IF ~F.initTimeCheck THEN t ELSE F.timePastFrame
        F1 == [F EXCEPT !.initTimeCheck = TRUE, !.timePastFrame = past]
        variation == F.timeOvershoot + (t - past)
    IN  IF F.skipFirstPass
        THEN [obj |-> [F1 EXCEPT !.skipFirstPass = DisarmedFlag,
                                 !.validFrameCnt = @ + 1],
              ret |-> "first", slipped |-> 0]
        ELSE IF variation < F.timeFrequency
        THEN [obj |-> [F1 EXCEPT !.timeVariation = variation],
              ret |-> "wait", slipped |-> 0]
        ELSE [obj |-> [F1 EXCEPT
                         !.timeVariation = variation,
                         !.timeOvershoot =
                             NewOvershoot(variation, F.timeFrequency, F.skipLostFrame),
                         !.timePastFrame = t + slip,
                         !.validFrameCnt = @ + 1],
              ret |-> "valid", slipped |-> slip]

\* FrameLimiter::paced()
paced(F) == F.timeOvershoot < F.timeFrequency /\ ~F.lastFrameLost

\* the checks the last successful check has promised: with the lag carried, a
\* check that saw k periods leaves at least k - 1 periods of overshoot
Owed == IF flRet = "valid" /\ ~Frame.skipLostFrame
        THEN (Frame.timeVariation \div Frame.timeFrequency) - 1
        ELSE IF flRet = "first" THEN flLast.owed ELSE 0

FLInit ==
    /\ \E r \in FLRates, firstpass \in BOOLEAN, lostframe \in BOOLEAN :
           Frame = FrameLimiter(r, firstpass, lostframe)
    /\ now = 0
    /\ flRet = "none"
    /\ flLast = [armed |-> FALSE, since |-> 0, prev |-> "none", owed |-> 0]

\* one check of the pacer
Check ==
    \E slip \in 0..MaxSlip :
        LET r == isValidFrame(Frame, now, slip) IN
        /\ now + slip <= MaxTime
        /\ Frame' = r.obj
        /\ now' = now + r.slipped
        /\ flRet' = r.ret
        /\ flLast' = [armed |-> Frame.skipFirstPass,
                      since |-> IF Frame.initTimeCheck
                                THEN now - Frame.timePastFrame ELSE 0,
                      prev |-> flRet,
                      owed |-> Owed]
        /\ UNCHANGED <<libVars, hdmVars, hostVars>>

\* time passes: a stall of up to MaxStep ms, or of one whole period
Stall ==
    \E d \in (1..MaxStep) \cup {Frame.timeFrequency} :
        /\ now + d <= MaxTime
        /\ now' = now + d
        /\ UNCHANGED <<libVars, Frame, flRet, flLast, hdmVars, hostVars>>

\* the host reconfigures the live pacer (a session starts or ends)
Reconfigure ==
    \E r \in FLRates :
        /\ Period(r) # Frame.timeFrequency
        /\ Frame' = setLimiter(Frame, r)
        /\ flRet' = "none"
        /\ UNCHANGED <<libVars, now, flLast, hdmVars, hostVars>>

(***************************************************************************)
(* Map2D: a buffer is its row count, its column count and its cells in     *)
(* row-major order, as pData holds them.  Rows and columns count from 0,   *)
(* the cells of data from 1.                                               *)
(***************************************************************************)
Buf(rows, cols, data) == [mRows |-> rows, mCols |-> cols, data |-> data]

\* Map2D::size()
size(B) == B.mRows * B.mCols

\* the cell at (row, col)
Cell(B, row, col) == B.data[row * B.mCols + col + 1]

Min(a, b) == IF a < b THEN a ELSE b

\* Map2D::wipeAll()
wipeAll(B) == [B EXCEPT !.data = [i \in 1..size(B) |-> 0]]

\* RowProxy::wipeAll() on Map2D::operator[](row)
wipeRow(B, row) ==
    [B EXCEPT !.data = [i \in 1..size(B) |->
                            IF (i - 1) \div B.mCols = row THEN 0 ELSE @[i]]]

\* Map2D::copyLinear(other): as much as fits
copyLinear(B, other) ==
    LET nSize == Min(size(B), size(other)) IN
    [B EXCEPT !.data = [i \in 1..size(B) |->
                            IF i <= nSize THEN other.data[i] ELSE @[i]]]

(***************************************************************************)
(* MemoryBanks.  MB is the object; VM is what it reads of its VM_Guest:    *)
(* State.xochip_color, Plane.selected, Plane.H, the program memory behind  *)
(* mrw(), and whether flushDisplay() was called.                           *)
(***************************************************************************)
\* row ^= 1, row &= ~1, row |= 1 on a cell
Xor1(c) == IF c % 2 = 0 THEN c + 1 ELSE c - 1
AndNot1(c) == c - (c % 2)
Or1(c) == c + 1 - (c % 2)

BrushType == {"CLR", "XOR", "SUB", "ADD"}

\* for (auto& row : displayBuffer[P]) row ^= 1, row &= ~1 or row |= 1
Brushed(B, type) ==
    [B EXCEPT !.data = [i \in 1..size(B) |->
        CASE type = "XOR" -> Xor1(@[i])
          [] type = "SUB" -> AndNot1(@[i])
          [] type = "ADD" -> Or1(@[i])]]

\* whether Plane.selected & (1 << P) is not 0
Selects(selected, P) == (selected \div (2 ^ P)) % 2 = 1

\* a viewport operation that never takes the single-plane path
ClassicNever(vm) == FALSE
\* modifyViewport, line 51: multicolor mode is off
Classic(vm) == ~vm.xochip_color

\* MemoryBanks::modifyViewport(type)
modifyViewport(mb, vm, type) ==
    IF Classic(vm)
    THEN [mb EXCEPT !.displayBuffer[1] = wipeAll(@)]
    ELSE [mb EXCEPT !.displayBuffer =
             [P \in 1..4 |->
                 IF ~Selects(vm.selected, P - 1) THEN @[P]
                 ELSE IF type = "CLR" THEN wipeAll(@[P])
                      ELSE Brushed(@[P], type)]]

\* a 32-bit word is its upper and its lower 16 bits
ZeroWord == [hi |-> 0, lo |-> 0]

\* a flush that copies on the first flush too
flushAlwaysCopies(firstFlush) == FALSE
\* flushBuffers, line 77: whether this flush takes the branch that zeroes
\* the palette and copies nothing
SkipsCopy(firstFlush) == firstFlush

\* MemoryBanks::flushBuffers(firstFlush), without vm->flushDisplay()
flushBuffers(mb, firstFlush) ==
    LET mb1 == IF SkipsCopy(firstFlush)
               THEN [mb EXCEPT !.megaPalette = [k \in DOMAIN @ |-> ZeroWord]]
               ELSE [mb EXCEPT !.foregroundBuffer =
                                    copyLinear(@, mb.backgroundBuffer)]
    IN  [mb1 EXCEPT !.backgroundBuffer = wipeAll(@),
                    !.collisionPalette = wipeAll(@)]

\* vm->mrw(index) << 24 | mrw(index + 1) << 16 | mrw(index + 2) << 8
\* | mrw(index + 3)
Word(mem, index) ==
    [hi |-> (mem[index] * 256 + mem[index + 1]) % 65536,
     lo |-> (mem[index + 2] * 256 + mem[index + 3]) % 65536]

\* a slot numbering that starts at slot 0
SlotFromZero(idx) == idx
\* loadPalette, line 91: megaPalette[++idx]
Slot(idx) == idx + 1

\* MemoryBanks::loadPalette(index, count)
loadPalette(mb, vm, index, count) ==
    [mb EXCEPT !.megaPalette =
        [k \in DOMAIN @ |->
            IF \E idx \in 0..(count - 1) : Slot(idx) = k
            THEN LET idx == CHOOSE i \in 0..(count - 1) : Slot(i) = k
                 IN  Word(vm.mem, index + 4 * idx)
            ELSE @[k]]]

\* a row clearing that starts at the row given
FirstRowSame(H) == H
\* clearPages, line 99: the first row wiped after H++
FirstRow(H) == H + 1

\* MemoryBanks::clearPages(H): while (H++ < Plane.H) wipe row H
clearPages(mb, vm, H) ==
    [mb EXCEPT !.displayBuffer[1] =
        [@ EXCEPT !.data = [i \in 1..size(mb.displayBuffer[1]) |->
            LET row == (i - 1) \div mb.displayBuffer[1].mCols IN
            IF H < vm.H /\ FirstRow(H) <= row /\ row <= vm.H
            THEN 0 ELSE @[i]]]]

\* the planes here have 3 rows of 2 cells; the cells hold 0..3
MixedPlane(p) == Buf(3, 2, [i \in 1..6 |-> (i + p) % 4])
OnesPlane(p) == Buf(3, 2, [i \in 1..6 |-> 1])
Displays == { [P \in 1..4 |-> MixedPlane(P)], [P \in 1..4 |-> OnesPlane(P)] }

\* the three composite buffers: of one size, a smaller foreground, a
\* smaller background
Composites ==
    { [fg |-> Buf(3, 2, <<9, 9, 9, 9, 9, 9>>),
       bg |-> Buf(3, 2, <<1, 0, 2, 3, 0, 1>>),
       co |-> Buf(3, 2, <<0, 1, 0, 1, 1, 0>>)],
      [fg |-> Buf(2, 2, <<9, 9, 9, 9>>),
       bg |-> Buf(3, 2, <<1, 0, 2, 3, 0, 1>>),
       co |-> Buf(1, 2, <<7, 0>>)],
      [fg |-> Buf(3, 2, <<9, 8, 7, 6, 5, 4>>),
       bg |-> Buf(2, 2, <<0, 3, 2, 1>>),
       co |-> Buf(3, 2, <<0, 0, 0, 0, 0, 0>>)] }

\* the palette here has slots 0..3
Palettes == { [k \in 0..3 |-> ZeroWord], [k \in 0..3 |-> [hi |-> 60928 + k, lo |-> 4607]] }

\* the program memory here has 16 bytes
Memories ==
    { [a \in 0..15 |-> (a * 37 + 200) % 256], [a \in 0..15 |-> 255] }

MBParked ==
    /\ MB = [displayBuffer |-> [P \in 1..4 |-> OnesPlane(P)],
             foregroundBuffer |-> Buf(1, 1, <<0>>),
             backgroundBuffer |-> Buf(1, 1, <<0>>),
             collisionPalette |-> Buf(1, 1, <<0>>),
             megaPalette |-> [k \in 0..3 |-> ZeroWord]]
    /\ VM = [xochip_color |-> FALSE, selected |-> 1, H |-> 2,
             mem |-> [a \in 0..15 |-> 255], flushed |-> FALSE]
    /\ mbLast = [op |-> "none"]

MBInit ==
    /\ \E d \in Displays, c \in Composites, p \in Palettes :
           MB = [displayBuffer |-> d,
                 foregroundBuffer |-> c.fg,
                 backgroundBuffer |-> c.bg,
                 collisionPalette |-> c.co,
                 megaPalette |-> p]
    /\ \E color \in BOOLEAN, selected \in 0..15, H \in 0..2, m \in Memories :
           VM = [xochip_color |-> color, selected |-> selected, H |-> H,
                 mem |-> m, flushed |-> FALSE]
    /\ mbLast = [op |-> "none"]

\* each call is made once, on any of the states above
ModifyViewport ==
    /\ mbLast.op = "none"
    /\ \E type \in BrushType :
           /\ MB' = modifyViewport(MB, VM, type)
           /\ mbLast' = [op |-> "modifyViewport", type |-> type, before |-> MB]
    /\ UNCHANGED <<VM, libButMB, flVars, hdmVars, hostVars>>

FlushBuffers ==
    /\ mbLast.op = "none"
    /\ \E firstFlush \in BOOLEAN :
           /\ MB' = flushBuffers(MB, firstFlush)
           /\ mbLast' = [op |-> "flushBuffers", firstFlush |-> firstFlush,
                         before |-> MB]
    /\ VM' = [VM EXCEPT !.flushed = TRUE]
    /\ UNCHANGED <<libButMB, flVars, hdmVars, hostVars>>

\* the entries read lie inside the memory and the slots inside the palette
LoadPalette ==
    /\ mbLast.op = "none"
    /\ \E index \in {0, 1, 4}, count \in 0..3 :
           /\ MB' = loadPalette(MB, VM, index, count)
           /\ mbLast' = [op |-> "loadPalette", index |-> index,
                         count |-> count, before |-> MB]
    /\ UNCHANGED <<VM, libButMB, flVars, hdmVars, hostVars>>

ClearPages ==
    /\ mbLast.op = "none"
    /\ \E H \in 0..4 :
           /\ MB' = clearPages(MB, VM, H)
           /\ mbLast' = [op |-> "clearPages", H |-> H, before |-> MB]
    /\ UNCHANGED <<VM, libButMB, flVars, hdmVars, hostVars>>

(***************************************************************************)
(* Map2D's directional operations and its transpose.  Grid is one owning   *)
(* buffer; gridLog holds the calls made on it, each with its arguments and *)
(* the buffer before it.                                                   *)
(***************************************************************************)
MaxDim == 4
MaxShift == 5
MaxCalls == 2

Abs(n) == IF n < 0 THEN -n ELSE n

\* std::rotate(first, first + middle, last) on a sequence: the element at
\* offset middle becomes the first
std_rotate(seq, middle) ==
    [i \in 1..Len(seq) |-> seq[((i - 1 + middle) % Len(seq)) + 1]]

\* std::fill(first + from, first + to, T()) on a sequence
std_fill(seq, from, to) ==
    [i \in 1..Len(seq) |-> IF from < i /\ i <= to THEN 0 ELSE seq[i]]

\* a rotation whose positive direction is the negative one's
RightMiddleLeft(length, cols) == Abs(cols) % length
\* RowProxy::rotate, line 635: end() - std::abs(cols) % mLength
RightMiddle(length, cols) == length - (Abs(cols) % length)

\* RowProxy::rotate(cols) on the cells of a row
RowRotated(row, cols) ==
    IF cols # 0
    THEN IF cols < 0
         THEN std_rotate(row, Abs(cols) % Len(row))
         ELSE std_rotate(row, RightMiddle(Len(row), cols))
    ELSE row

\* RowProxy::wipe(cols) on the cells of a row
RowWiped(row, cols) ==
    IF Abs(cols) >= Len(row)
    THEN [i \in 1..Len(row) |-> 0]
    ELSE IF cols # 0
         THEN IF cols < 0
              THEN std_fill(row, Len(row) - Abs(cols), Len(row))
              ELSE std_fill(row, 0, Abs(cols))
         ELSE row

\* RowProxy::shift(cols) on the cells of a row
RowShifted(row, cols) ==
    RowWiped(IF Abs(cols) < Len(row) THEN RowRotated(row, cols) ELSE row,
             cols)

\* the cells of row r, as RowProxy(mBegin() + row * mCols, mCols) sees them
RowCells(B, r) == [c \in 1..B.mCols |-> B.data[r * B.mCols + c]]

\* the buffer with the cells of row r replaced
WithRow(B, r, cells) ==
    [B EXCEPT !.data = [i \in 1..size(B) |->
        IF (i - 1) \div B.mCols = r
        THEN cells[((i - 1) % B.mCols) + 1]
        ELSE @[i]]]

\* the buffer with the cells of every row replaced, given per row
WithRows(B, cells) ==
    [B EXCEPT !.data = [i \in 1..size(B) |->
        cells[(i - 1) \div B.mCols][((i - 1) % B.mCols) + 1]]]

\* for (auto& row : *this) row.wipe(cols)
EachRowWiped(B, cols) ==
    WithRows(B, [r \in 0..(B.mRows - 1) |-> RowWiped(RowCells(B, r), cols)])

\* for (auto& row : *this) row.rotate(cols)
EachRowRotated(B, cols) ==
    WithRows(B, [r \in 0..(B.mRows - 1) |-> RowRotated(RowCells(B, r), cols)])

\* a wipe that clears nothing
wipeNone(B, rows, cols) == B

\* Map2D::wipe(rows, cols)
wipe(B, rows, cols) ==
    IF Abs(rows) >= B.mRows \/ Abs(cols) >= B.mCols
    THEN wipeAll(B)
    ELSE LET B1 == IF rows # 0
                   THEN IF rows < 0
                        THEN [B EXCEPT !.data =
                                 std_fill(@, size(B) + rows * B.mCols, size(B))]
                        ELSE [B EXCEPT !.data = std_fill(@, 0, rows * B.mCols)]
                   ELSE B
         IN  IF cols # 0 THEN EachRowWiped(B1, cols) ELSE B1

\* Map2D::rotate, lines 1481-1485: whether the middle iterator of the
\* vertical rotation lies inside [mBegin(), mEnd()]
MiddleInside(B, rows) == Abs(rows) * B.mCols <= size(B)

\* the vertical part of Map2D::rotate, its middle iterator inside the buffer
RotatedY(B, rows) ==
    IF Abs(rows) % B.mRows # 0
    THEN IF rows < 0
         THEN [B EXCEPT !.data = std_rotate(@, (-rows) * B.mCols)]
         ELSE [B EXCEPT !.data = std_rotate(@, size(B) - rows * B.mCols)]
    ELSE B

\* the horizontal part of Map2D::rotate
RotatedX(B, cols) ==
    IF Abs(cols) % B.mCols # 0 THEN EachRowRotated(B, cols) ELSE B

\* Map2D::rotate(rows, cols), its middle iterator inside the buffer
rotate(B, rows, cols) == RotatedX(RotatedY(B, rows), cols)

\* whether Map2D::rotate(rows, cols) is defined: std::rotate is given a
\* middle outside the buffer when rows is not a multiple of mRows and
\* |rows| exceeds it
RotateDefined(B, rows) == Abs(rows) % B.mRows = 0 \/ MiddleInside(B, rows)

\* what Map2D::rotate(rows, cols) can leave: the rotation where it is
\* defined; otherwise the process may stop (fault), or go on with the
\* buffer as it was, zeroed, or rotated by rows modulo mRows
RotateOutcomes(B, rows, cols) ==
    IF RotateDefined(B, rows)
    THEN { [buf |-> rotate(B, rows, cols), fault |-> FALSE] }
    ELSE { [buf |-> B, fault |-> TRUE] } \union
         { [buf |-> RotatedX(b, cols), fault |-> FALSE] :
             b \in { B, wipeAll(B),
                     RotatedY(B, IF rows < 0 THEN -(Abs(rows) % B.mRows)
                                 ELSE rows % B.mRows) } }

\* Map2D::shift(rows, cols)
shift(B, rows, cols) ==
    wipe(IF Abs(rows) < B.mRows /\ Abs(cols) < B.mCols
         THEN rotate(B, rows, cols) ELSE B,
         rows, cols)

\* a successor index that takes the new shape for the old
SuccSwapped(b, rows, cols) == (b % cols) * rows + (b \div cols)
\* transpose, line 1565: b = (b % mRows) * mCols + (b / mRows)
Succ(b, rows, cols) == (b % rows) * cols + (b \div rows)

\* transpose, lines 1564-1566: do { b = successor } while (b < a)
RECURSIVE Follow(_, _, _, _)
Follow(b, a, rows, cols) ==
    LET n == Succ(b, rows, cols) IN
    IF n < a THEN Follow(n, a, rows, cols) ELSE n

\* std::iter_swap(mBegin() + a, mBegin() + b)
iter_swap(seq, a, b) ==
    [seq EXCEPT ![a + 1] = seq[b + 1], ![b + 1] = seq[a + 1]]

\* transpose, lines 1563-1569: the loop from index a on
RECURSIVE TransposeFrom(_, _, _, _)
TransposeFrom(data, a, rows, cols) ==
    IF a < rows * cols - 1
    THEN LET b == Follow(a, a, rows, cols) IN
         TransposeFrom(IF b # a THEN iter_swap(data, a, b) ELSE data,
                       a + 1, rows, cols)
    ELSE data

\* Map2D::transpose()
transpose(B) ==
    Buf(B.mCols, B.mRows,
        IF B.mRows > 1 \/ B.mCols > 1
        THEN TransposeFrom(B.data, 1, B.mRows, B.mCols)
        ELSE B.data)

\* a dimension taken as asked for, zero included
AbsOnly(n) == Abs(n)
\* Map2D(rows, cols), lines 1135-1136: std::max<paramS>(1, std::abs(n))
MaxOne(n) == IF 1 > Abs(n) THEN 1 ELSE Abs(n)

\* Map2D::Map2D(rows, cols): make_unique<T[]> value-initialises the cells
Map2D(rows, cols) ==
    Buf(MaxOne(rows), MaxOne(cols),
        [i \in 1..(MaxOne(rows) * MaxOne(cols)) |-> 0])

\* a & b on integers that are not negative
RECURSIVE BitAnd(_, _)
BitAnd(a, b) ==
    IF a = 0 \/ b = 0 THEN 0
    ELSE (a % 2) * (b % 2) + 2 * BitAnd(a \div 2, b \div 2)

\* Map2D::at_wrap(row, col): the offset into pData of the cell returned
at_wrap(B, row, col) ==
    BitAnd(row, B.mRows - 1) * B.mCols + BitAnd(col, B.mCols - 1)

\* the buffers the operations are applied to: every shape up to MaxDim by
\* MaxDim, holding distinct nonzero cells or a pattern with zeros in it
Buffers ==
    { Buf(r, c, [i \in 1..(r * c) |-> i]) : r \in 1..MaxDim, c \in 1..MaxDim }
    \union
    { Buf(r, c, [i \in 1..(r * c) |-> (i * i) % 3]) :
          r \in 1..MaxDim, c \in 1..MaxDim }

Shifts == (-MaxShift)..MaxShift

Call(op, a, b, before, fault) ==
    [op |-> op, a |-> a, b |-> b, before |-> before, fault |-> fault]

MapParked ==
    /\ Grid = Buf(1, 1, <<0>>)
    /\ gridLog = <<>>

MapInit ==
    /\ Grid \in Buffers
    /\ gridLog = <<>>

\* transpose, called up to MaxCalls times in a row
Transpose ==
    /\ Len(gridLog) < MaxCalls
    /\ \A k \in 1..Len(gridLog) : gridLog[k].op = "transpose"
    /\ Grid' = transpose(Grid)
    /\ gridLog' = Append(gridLog, Call("transpose", 0, 0, Grid, FALSE))
    /\ UNCHANGED <<libButMap, flVars, hdmVars, hostVars>>

\* the other operations are called once, on any of the buffers
Rotate ==
    /\ gridLog = <<>>
    /\ \E rows \in Shifts, cols \in Shifts :
       \E out \in RotateOutcomes(Grid, rows, cols) :
           /\ Grid' = out.buf
           /\ gridLog' = <<Call("rotate", rows, cols, Grid, out.fault)>>
    /\ UNCHANGED <<libButMap, flVars, hdmVars, hostVars>>

Shift ==
    /\ gridLog = <<>>
    /\ \E rows \in Shifts, cols \in Shifts :
           /\ Grid' = shift(Grid, rows, cols)
           /\ gridLog' = <<Call("shift", rows, cols, Grid, FALSE)>>
    /\ UNCHANGED <<libButMap, flVars, hdmVars, hostVars>>

\* the constructor replaces the buffer by the one it makes
NewMap2D ==
    /\ gridLog = <<>>
    /\ \E rows \in Shifts, cols \in Shifts :
           /\ Grid' = Map2D(rows, cols)
           /\ gridLog' = <<Call("Map2D", rows, cols, Grid, FALSE)>>
    /\ UNCHANGED <<libButMap, flVars, hdmVars, hostVars>>

\* at_wrap is asked for a cell at or beyond the buffer's edges
AtWrap ==
    /\ gridLog = <<>>
    /\ \E row \in 0..(MaxDim + MaxShift), col \in 0..(MaxDim + MaxShift) :
           gridLog' = <<[op |-> "at_wrap", a |-> row, b |-> col,
                         before |-> Grid, fault |-> FALSE,
                         ret |-> at_wrap(Grid, row, col)]>>
    /\ UNCHANGED <<Grid, libButMap, flVars, hdmVars, hostVars>>

RowRotate ==
    /\ gridLog = <<>>
    /\ \E r \in 0..(Grid.mRows - 1), cols \in Shifts :
           /\ Grid' = WithRow(Grid, r, RowRotated(RowCells(Grid, r), cols))
           /\ gridLog' = <<Call("row.rotate", r, cols, Grid, FALSE)>>
    /\ UNCHANGED <<libButMap, flVars, hdmVars, hostVars>>

RowShift ==
    /\ gridLog = <<>>
    /\ \E r \in 0..(Grid.mRows - 1), cols \in Shifts :
           /\ Grid' = WithRow(Grid, r, RowShifted(RowCells(Grid, r), cols))
           /\ gridLog' = <<Call("row.shift", r, cols, Grid, FALSE)>>
    /\ UNCHANGED <<libButMap, flVars, hdmVars, hostVars>>

(***************************************************************************)
(* MapRow's arithmetic with a row operand, on rows of int.  rowA is the    *)
(* row operated on, rowB the operand; rowLast holds the call made: the     *)
(* row before it, the row returned, and whether std::domain_error left it. *)
(***************************************************************************)
MaxLen == 3

\* T's a / b: the quotient truncated towards zero
TruncDiv(a, b) ==
    IF (a < 0) = (b < 0) THEN Abs(a) \div Abs(b) ELSE -(Abs(a) \div Abs(b))

\* std::fmod(a, b) on integers: the remainder, with the sign of a
fmod(a, b) == a - b * TruncDiv(a, b)

\* the least and the greatest int
IntMin == -2147483647 - 1
IntMax == 2147483647

\* what T(x / 0.0) can be for T = int: the conversion of an infinity or
\* a NaN to int is undefined; the builds give the least int, the greatest
\* int or 0
UndefinedInts == {IntMin, IntMax, 0}

\* an exception that puts the row back as it was
RestoredAtThrow(current, original) == original
\* operator/=, line 102 and operator%=, line 129: the throw leaves the loop
\* with the row as far as it got
LeftAtThrow(current, original) == current

\* operator/= and operator%= with a row operand, lines 99-107 and 126-134:
\* the loop from index i on
RECURSIVE CheckedLoop(_, _, _, _, _, _)
CheckedLoop(op, row, other, i, len, original) ==
    IF i < len
    THEN IF other[i + 1] = 0
         THEN [row |-> LeftAtThrow(row, original), thrown |-> TRUE]
         ELSE CheckedLoop(op,
                  [row EXCEPT ![i + 1] =
                      IF op = "/=" THEN TruncDiv(@, other[i + 1])
                      ELSE fmod(@, other[i + 1])],
                  other, i + 1, len, original)
    ELSE [row |-> row, thrown |-> FALSE]

\* MapRow::operator/=(other)
DivideAssigned(row, other) ==
    CheckedLoop("/=", row, other, 0, Min(Len(row), Len(other)), row)

\* MapRow::operator%=(other)
ModuloAssigned(row, other) ==
    CheckedLoop("%=", row, other, 0, Min(Len(row), Len(other)), row)

\* MapRow::operator-=(other), lines 61-65: the body is (*this)[i] += other[i]
SubtractAssigned(row, other) ==
    [i \in 1..Len(row) |->
        IF i <= Min(Len(row), Len(other)) THEN row[i] + other[i] ELSE row[i]]

\* MapRow::operator-(other), lines 271-276
Subtracted(row, other) ==
    [i \in 1..Len(row) |->
        IF i <= Min(Len(row), Len(other)) THEN row[i] - other[i] ELSE row[i]]

\* operator%, line 348: temp[i] /= std::fmod(temp[i], other[i]), the
\* values cell i can hold after it
ModuloCell(a, b) ==
    IF fmod(a, b) = 0 THEN UndefinedInts ELSE { TruncDiv(a, fmod(a, b)) }

\* whether operator% throws: a zero in other below both lengths
ModuloThrows(row, other) ==
    \E i \in 1..Min(Len(row), Len(other)) : other[i] = 0

\* MapRow::operator%(other), lines 342-351: what the first n cells of temp
\* can be when the loop does not throw
RECURSIVE ModuloPrefixes(_, _, _)
ModuloPrefixes(row, other, n) ==
    IF n = 0 THEN { <<>> }
    ELSE { Append(p, c) :
             p \in ModuloPrefixes(row, other, n - 1),
             c \in IF n <= Min(Len(row), Len(other))
                   THEN ModuloCell(row[n], other[n])
                   ELSE { row[n] } }

\* MapRow::operator%(other): the rows it can return when it does not throw
ModuloOutcomes(row, other) == ModuloPrefixes(row, other, Len(row))

\* the cells of the rows
Cells == {0, 3, -7}

\* the rows of up to MaxLen cells
RECURSIVE RowsOf(_)
RowsOf(n) ==
    IF n = 0 THEN { <<>> }
    ELSE RowsOf(n - 1) \union
         { Append(r, c) : r \in { q \in RowsOf(n - 1) : Len(q) = n - 1 },
                          c \in Cells }

Rows == RowsOf(MaxLen)

NoRowCall == [op |-> "none", before |-> <<>>, ret |-> <<>>, thrown |-> FALSE]

RowParked ==
    /\ rowA = <<>> /\ rowB = <<>>
    /\ rowLast = NoRowCall

RowInit ==
    /\ rowA \in Rows /\ rowB \in Rows
    /\ rowLast = NoRowCall

\* each operator is applied once, to any two of the rows
DivideAssign ==
    /\ rowLast.op = "none"
    /\ LET out == DivideAssigned(rowA, rowB) IN
       /\ rowA' = out.row
       /\ rowLast' = [op |-> "/=", before |-> rowA, ret |-> out.row,
                      thrown |-> out.thrown]
    /\ UNCHANGED <<rowB, libButRow, flVars, hdmVars, hostVars>>

ModuloAssign ==
    /\ rowLast.op = "none"
    /\ LET out == ModuloAssigned(rowA, rowB) IN
       /\ rowA' = out.row
       /\ rowLast' = [op |-> "%=", before |-> rowA, ret |-> out.row,
                      thrown |-> out.thrown]
    /\ UNCHANGED <<rowB, libButRow, flVars, hdmVars, hostVars>>

SubtractAssign ==
    /\ rowLast.op = "none"
    /\ rowA' = SubtractAssigned(rowA, rowB)
    /\ rowLast' = [op |-> "-=", before |-> rowA, ret |-> rowA',
                   thrown |-> FALSE]
    /\ UNCHANGED <<rowB, libButRow, flVars, hdmVars, hostVars>>

Subtract ==
    /\ rowLast.op = "none"
    /\ rowLast' = [op |-> "-", before |-> rowA,
                   ret |-> Subtracted(rowA, rowB), thrown |-> FALSE]
    /\ UNCHANGED <<rowA, rowB, libButRow, flVars, hdmVars, hostVars>>

Modulo ==
    /\ rowLast.op = "none"
    /\ IF ModuloThrows(rowA, rowB)
       THEN rowLast' = [op |-> "%", before |-> rowA, ret |-> <<>>,
                        thrown |-> TRUE]
       ELSE \E t \in ModuloOutcomes(rowA, rowB) :
                rowLast' = [op |-> "%", before |-> rowA, ret |-> t,
                            thrown |-> FALSE]
    /\ UNCHANGED <<rowA, rowB, libButRow, flVars, hdmVars, hostVars>>

(***************************************************************************)
(* Views: a Map2D of pointers.  A view is its row count, its column count  *)
(* and, per cell, the cell of the owning buffer its pointer refers to,     *)
(* <<row, col>>.  View is the view re-seated, ViewBase what it is seated   *)
(* on, viewLast the call made.                                             *)
(***************************************************************************)
MaxView == 2

\* Map2D::negmod(lhs, rhs)
negmod(lhs, rhs) ==
    LET _mod == fmod(lhs, rhs) IN
    IF _mod < 0 THEN _mod + rhs ELSE _mod

\* &base->at_raw(row, col) for every cell of an owning buffer: the buffer
\* seen as its own view
Own(B) ==
    [mRows |-> B.mRows, mCols |-> B.mCols,
     ptr |-> [i \in 1..size(B) |->
                 <<(i - 1) \div B.mCols, (i - 1) % B.mCols>>]]

\* setView, lines 1258-1264 and 1293-1299: the pointers of a view of nRows
\* by nCols seated on base at (posY, posX)
Seated(base, nRows, nCols, posY, posX) ==
    [mRows |-> nRows, mCols |-> nCols,
     ptr |-> [i \in 1..(nRows * nCols) |->
                 LET offsetY == negmod(((i - 1) \div nCols) + posY, base.mRows)
                     offsetX == negmod(((i - 1) % nCols) + posX, base.mCols)
                 IN  base.ptr[offsetY * base.mCols + offsetX + 1]]]

\* Map2D::setView(base, rows, cols, posY, posX); line 1255 reads mRows
\* after line 1254 assigned it
setView(V, base, rows, cols, posY, posX) ==
    LET nRows == IF rows = 0 THEN V.mRows ELSE Abs(rows)
        nCols == IF cols = 0 THEN nRows ELSE Abs(cols)
    IN  Seated(base, nRows, nCols, posY, posX)

\* Map2D::makeView(rows, cols, posY, posX)
makeView(base, rows, cols, posY, posX) ==
    Seated(base,
           IF rows = 0 THEN base.mRows ELSE Abs(rows),
           IF cols = 0 THEN base.mCols ELSE Abs(cols),
           posY, posX)

\* the positions a view is seated at: inside the base and beyond its edges
Offsets == {-MaxDim - 1, -1, 0, 1, MaxDim + 1}

\* what a view is seated on: an owning buffer of up to MaxView + 1 rows and
\* columns, or a view of one
ViewBases ==
    { Own(Map2D(r, c)) : r \in 1..(MaxView + 1), c \in 1..(MaxView + 1) }
    \union
    { makeView(Own(Map2D(r, c)), 0, 0, 1, 1) :
          r \in 1..(MaxView + 1), c \in 1..(MaxView + 1) }

NoViewCall ==
    [op |-> "none", rows |-> 0, cols |-> 0, posY |-> 0, posX |-> 0,
     before |-> Own(Map2D(1, 1))]

ViewParked ==
    /\ View = Own(Map2D(1, 1))
    /\ ViewBase = Own(Map2D(1, 1))
    /\ viewLast = NoViewCall

\* a view made over its base with makeView
ViewInit ==
    /\ ViewBase \in ViewBases
    /\ \E rows \in 1..MaxView, cols \in 1..(MaxView + 1) :
           View = makeView(ViewBase, rows, cols, 0, 0)
    /\ viewLast = NoViewCall

\* the view is re-seated once, on the base it was made over
SetView ==
    /\ viewLast.op = "none"
    /\ \E rows \in (-MaxView)..MaxView, cols \in (-MaxView)..MaxView,
          posY \in Offsets, posX \in Offsets :
           /\ View' = setView(View, ViewBase, rows, cols, posY, posX)
           /\ viewLast' = [op |-> "setView", rows |-> rows, cols |-> cols,
                           posY |-> posY, posX |-> posX, before |-> View]
    /\ UNCHANGED <<ViewBase, libButView, flVars, hdmVars, hostVars>>

\* the frame rates setFreq is given when it is checked alone, in tenths of
\* Hz: negative, zero, around 0.5 Hz, the hosts' 30 Hz and 60 Hz, around
\* 1000 Hz, and far above
RateInputs ==
    {-600, -1} \union (0..12) \union {300, 600, 2500} \union (9995..10005)
        \union {20000, 1000000}

\* a pacer constructed at any of these rates
RateInit ==
    /\ \E r \in RateInputs, firstpass \in BOOLEAN, lostframe \in BOOLEAN :
           /\ Frame = FrameLimiter(r, firstpass, lostframe)
           /\ flRate = r
    /\ now = 0
    /\ flRet = "none"
    /\ flLast = [armed |-> FALSE, since |-> 0, prev |-> "none", owed |-> 0]

\* FrameLimiter::setFreq(framerate, firstpass, lostframe) on a live pacer
SetFreq ==
    \E r \in RateInputs, firstpass \in BOOLEAN, lostframe \in BOOLEAN :
        /\ Frame' = setFreq(Frame, r, firstpass, lostframe)
        /\ flRate' = r
        /\ UNCHANGED <<libButRate, now, flRet, flLast, hdmVars, hostVars>>

\* the calls checked one at a time, before any is made
LibParked ==
    /\ flRate = 600
    /\ gfcLast = NoGfcCall
    /\ MBParked
    /\ MapParked
    /\ RowParked /\ ViewParked

\* the pacer a host builds before its loop: 60 Hz, both flags set
FLParked ==
    /\ Frame = FrameLimiter(600, TRUE, TRUE)
    /\ now = 0
    /\ flRet = "none"
    /\ flLast = [armed |-> FALSE, since |-> 0, prev |-> "none", owed |-> 0]


(***************************************************************************)
(* VM_Host: the constructor, runHost, prepareGuest and eventLoopSDL.       *)
(*                                                                         *)
(* The functions below take and return the record M of everything the host *)
(* can change: HDM, sEmuCore, sErrorMsg, kbPrev, doBench, Guest, Frame,    *)
(* frameMultiplier and trace.                                              *)
(***************************************************************************)
\* the keys pressed: the ones runHost reads to steer the session.  RIGHT,
\* LEFT, UP and DOWN, which change only the volume and the cycle count, stay
\* up
Keys == {"ESCAPE", "BACKSPACE", "RSHIFT", "PAGEUP", "PAGEDOWN"}
\* what is down at one time: no key, one key, or two keys together
KeySets == {{}} \union { {k, l} : k \in Keys, l \in Keys }

\* the paths dropped on the window and given on the command line: no path, a
\* missing one, a file that does not open, an empty file, two programs that
\* validate, one too large for its dialect, and a text file
DropInputs ==
    { f \in FileInputs :
        \/ f.path = NullPath
        \/ f.fs.stat = "absent" /\ f.path[2] = "pong" /\ f.path[3] = ".ch8"
        \/ /\ f.fs.stat = "regular" /\ ~f.fs.sizeError
           /\ \/ ~f.fs.opens /\ f.path[3] = ".xo8" /\ f.content = <<1>>
              \/ f.fs.good /\ f.path[3] = ".ch8" /\ f.content # <<2>>
              \/ f.fs.good /\ f.path[3] = ".xo8" /\ f.content = <<2>>
              \/ f.fs.good /\ f.path[3] = ".txt" /\ f.content = <<1>> }

\* bic::kb.isPressed(key): down now, up at the last commit
isPressed(cur, prev, key) == key \in cur /\ key \notin prev

Did(M, call) == [M EXCEPT !.trace = Append(@, call)]

\* bic::kb.updateCopy(); bic::mb.updateCopy()
updateCopy(M, cur) == Did([M EXCEPT !.kbPrev = cur], "updateCopy")

\* Guest.fetchFramerate(): the dialect's native rate, 60 Hz
fetchFramerate(G) == 600

\* the rate prepareGuest sets with no program, 30.0f
IdleRate10 == 300

\* Guest.initGameCore(HDM, BVS, BAS): a fresh interpreter for the dialect
initGameCore(G, core) == [G EXCEPT !.core = core]

\* Guest.isSystemStopped(state)
isSystemStopped(G, state) == [G EXCEPT !.stopped = state]


\* BVS.changeFrameMultiplier(delta), clamped to what the service allows
changeFrameMultiplier(m, delta) == Clamp(m + delta, 1, MaxMultiplier)

\* runHost, lines 96-101: the step each of the two keys asks for
ScaleStepNone(key) == 0
ScaleStep(key) == IF key = "PAGEDOWN" THEN -1 ELSE 1

changeScale(M, key) ==
    Did([M EXCEPT !.frameMultiplier =
                      changeFrameMultiplier(@, ScaleStep(key))],
        "changeFrameMultiplier")

\* prepareGuest without lines 133-134: the input snapshot is not committed
prepareGuestUncommitted(M, cur) ==
    IF hasCore(M.sEmuCore)
    THEN Did(Did([M EXCEPT
                    !.Guest = initGameCore(@, M.sEmuCore),
                    !.Frame = setLimiter(@, fetchFramerate(M.Guest))],
                 "initGameCore"), "setLimiter")
    ELSE Did(Did([M EXCEPT
                    !.Frame = setLimiter(@, IdleRate10),
                    !.HDM = reset(@)],
                 "setLimiter"), "reset")

\* VM_Host::prepareGuest(Guest, Frame)
prepareGuest(M, cur) ==
    LET M1 == updateCopy(M, cur) IN
    IF hasCore(M1.sEmuCore)
    THEN Did(Did([M1 EXCEPT
                    !.Guest = initGameCore(@, M1.sEmuCore),
                    !.Frame = setLimiter(@, fetchFramerate(M1.Guest))],
                 "initGameCore"), "setLimiter")
    ELSE Did(Did([M1 EXCEPT
                    !.Frame = setLimiter(@, IdleRate10),
                    !.HDM = reset(@)],
                 "setLimiter"), "reset")

\* HDM.verifyFile(GameFileChecker::validate, filepath), as the host calls it
hostVerifyFile(M, f) ==
    LET r == verifyFile(M.HDM, M.sEmuCore, M.sErrorMsg,
                        "GameFileChecker::validate", f)
    IN  [M EXCEPT !.HDM = r.HDM, !.sEmuCore = r.sEmuCore,
                  !.sErrorMsg = r.sErrorMsg]

\* eventLoopSDL, case SDL_EVENT_DROP_FILE
dropFile(M, cur, f) ==
    LET M1 == hostVerifyFile(M, f) IN
    IF hasCore(M1.sEmuCore)
    THEN prepareGuest(M1, cur)
    ELSE Did([M1 EXCEPT !.sErrorMsg = getError(@).sErrorMsg], "stdLogOut")

\* runHost, lines 65-128: the input-driven controls, the frame step, the
\* present and the commit of the input snapshot; next is how the iteration
\* ends: "continue", "return" or by reaching the end of the loop body
controls(M, cur) ==
    LET pressed(key) == isPressed(cur, M.kbPrev, key)
        loaded == hasCore(M.sEmuCore)
        M0 == Did(M, "controls")
        \* BAS.changeVolume(+15), BAS.changeVolume(-15)
        M1 == IF pressed("RIGHT") \/ pressed("LEFT")
              THEN Did(M0, "changeVolume") ELSE M0
        \* doBench(!doBench()) and the title
        M2 == IF loaded /\ pressed("RSHIFT")
              THEN [M1 EXCEPT !.doBench = ~@] ELSE M1
        M3 == IF loaded /\ pressed("PAGEDOWN")
              THEN changeScale(M2, "PAGEDOWN") ELSE M2
        M4 == IF loaded /\ pressed("PAGEUP")
              THEN changeScale(M3, "PAGEUP") ELSE M3
        \* Guest.changeCPF(+50'000), Guest.changeCPF(-50'000)
        M5 == IF loaded /\ M4.doBench /\ (pressed("UP") \/ pressed("DOWN"))
              THEN Did(M4, "changeCPF") ELSE M4
        \* BVS.renderPresent(); kb.updateCopy(); mb.updateCopy()
        tail(Mx) == updateCopy(Did(Mx, "renderPresent"), cur)
    IN  IF loaded
        THEN IF pressed("ESCAPE")
             THEN \* BVS.resetWindow(); GameFileChecker::delCore()
                  [next |-> "continue",
                   M |-> prepareGuest([M1 EXCEPT !.sEmuCore = delCore.sEmuCore,
                                                 !.sErrorMsg = delCore.sErrorMsg],
                                      cur)]
             ELSE IF pressed("BACKSPACE")
             THEN [next |-> "continue", M |-> prepareGuest(M1, cur)]
             ELSE [next |-> "end", M |-> tail(Did(M5, "processFrame"))]
        ELSE IF pressed("ESCAPE")
             THEN [next |-> "return", M |-> M1]
             ELSE [next |-> "end", M |-> tail(M1)]

\* the record M of the current state, and the assignment of one to the next
Cur ==
    [HDM |-> HDM, sEmuCore |-> sEmuCore, sErrorMsg |-> sErrorMsg,
     kbPrev |-> kbPrev, doBench |-> doBench, Guest |-> Guest, Frame |-> Frame,
     frameMultiplier |-> frameMultiplier, trace |-> trace]

Becomes(M) ==
    /\ HDM' = M.HDM
    /\ sEmuCore' = M.sEmuCore
    /\ sErrorMsg' = M.sErrorMsg
    /\ kbPrev' = M.kbPrev
    /\ doBench' = M.doBench
    /\ Guest' = M.Guest
    /\ Frame' = M.Frame
    /\ frameMultiplier' = M.frameMultiplier
    /\ trace' = M.trace

NoEvent == [type |-> "none", accepted |-> FALSE, loaded |-> FALSE]

HostParked ==
    /\ pc = "ctor"
    /\ exitStatus = "running"
    /\ kbCur = {}
    /\ kbPrev = {}
    /\ doBench = FALSE
    /\ Guest = [core |-> INVALID, stopped |-> FALSE]
    /\ frameMultiplier = 1
    /\ trace = <<>>
    /\ lastEvent = NoEvent
    /\ nEvents = 0

HostInit ==
    /\ pc = "ctor"
    /\ exitStatus = "running"
    /\ kbCur = {}
    /\ kbPrev = {}
    /\ doBench = FALSE
    /\ Guest = [core |-> INVALID, stopped |-> FALSE]
    /\ frameMultiplier \in 1..MaxMultiplier
    /\ trace = <<>>
    /\ lastEvent = NoEvent
    /\ nEvents = 0

\* VM_Host::VM_Host(filename, HDM, BVS, BAS)
Construct ==
    /\ pc = "ctor"
    /\ \/ UNCHANGED <<HDM, sEmuCore, sErrorMsg>>          \* no filename
       \/ \E f \in DropInputs :
              LET M == hostVerifyFile(Cur, f) IN
              /\ HDM' = M.HDM
              /\ sEmuCore' = M.sEmuCore
              /\ sErrorMsg' = M.sErrorMsg
    /\ pc' = "runHost"
    /\ UNCHANGED <<libVars, exitStatus, kbCur, kbPrev, doBench, Guest, frameMultiplier,
                   trace, lastEvent, nEvents, flVars, vfLast, lastGood>>

\* runHost, lines 51-56: FrameLimiter Frame; VM_Guest Guest; prepareGuest
RunHost ==
    /\ pc = "runHost"
    /\ Becomes(prepareGuest(Cur, kbCur))
    /\ pc' = "gate"
    /\ UNCHANGED <<libVars, exitStatus, kbCur, lastEvent, nEvents, now, flRet, flLast,
                   vfLast, lastGood>>

\* line 59, Frame.checkTime() answers false: continue
GateClosed ==
    /\ pc = "gate"
    /\ UNCHANGED vars

\* line 59, Frame.checkTime() answers true: on to eventLoopSDL
GateOpen ==
    /\ pc = "gate"
    /\ pc' = "events"
    /\ trace' = <<"eventLoopSDL">>
    /\ UNCHANGED <<libVars, exitStatus, kbCur, kbPrev, doBench, Guest, frameMultiplier,
                   lastEvent, nEvents, flVars, hdmVars>>

\* SDL_PollEvent pumps the platform's events: a key goes down or up
PumpKeys ==
    /\ pc = "events"
    /\ \E k \in Keys :
           /\ kbCur' = IF k \in kbCur THEN kbCur \ {k} ELSE kbCur \union {k}
           /\ kbCur' \in KeySets
    /\ UNCHANGED <<libVars, pc, exitStatus, kbPrev, doBench, Guest, frameMultiplier,
                   trace, lastEvent, nEvents, flVars, hdmVars>>

\* SDL_PollEvent answers 0: eventLoopSDL returns false
EventsDone ==
    /\ pc = "events"
    /\ pc' = "controls"
    /\ lastEvent' = NoEvent
    /\ nEvents' = 0
    /\ UNCHANGED <<libVars, exitStatus, kbCur, kbPrev, doBench, Guest, frameMultiplier,
                   trace, flVars, hdmVars>>

\* case SDL_EVENT_QUIT: eventLoopSDL returns true, runHost EXIT_SUCCESS
EventQuit ==
    /\ pc = "events" /\ nEvents < MaxEvents
    /\ pc' = "exit"
    /\ exitStatus' = 0
    /\ lastEvent' = [type |-> "quit", accepted |-> FALSE, loaded |-> FALSE]
    /\ nEvents' = nEvents + 1
    /\ UNCHANGED <<libVars, kbCur, kbPrev, doBench, Guest, frameMultiplier, trace,
                   flVars, hdmVars>>

\* case SDL_EVENT_DROP_FILE
EventDropFile ==
    /\ pc = "events" /\ nEvents < MaxEvents
    /\ \E f \in DropInputs :
           /\ Becomes(dropFile(Cur, kbCur, f))
           /\ lastEvent' =
                  [type |-> "drop",
                   accepted |-> verifyFile(HDM, sEmuCore, sErrorMsg,
                                           "GameFileChecker::validate", f).ret,
                   loaded |-> hasCore(sEmuCore)]
    /\ nEvents' = nEvents + 1
    /\ UNCHANGED <<libVars, pc, exitStatus, kbCur, now, flRet, flLast, vfLast, lastGood>>

\* case SDL_EVENT_WINDOW_MINIMIZED, case SDL_EVENT_WINDOW_RESTORED
EventWindow ==
    /\ pc = "events" /\ nEvents < MaxEvents
    /\ \E state \in BOOLEAN :
           /\ Guest' = isSystemStopped(Guest, state)
           /\ lastEvent' = [type |-> IF state THEN "minimized" ELSE "restored",
                            accepted |-> FALSE, loaded |-> FALSE]
    /\ nEvents' = nEvents + 1
    /\ UNCHANGED <<libVars, pc, exitStatus, kbCur, kbPrev, doBench, frameMultiplier,
                   trace, Frame, now, flRet, flLast, hdmVars>>

\* runHost, lines 65-128
Controls ==
    /\ pc = "controls"
    /\ LET r == controls(Cur, kbCur) IN
       /\ Becomes(r.M)
       /\ pc' = IF r.next = "return" THEN "exit" ELSE "gate"
       /\ exitStatus' = IF r.next = "return" THEN 0 ELSE exitStatus
    /\ UNCHANGED <<libVars, kbCur, lastEvent, nEvents, now, flRet, flLast, vfLast,
                   lastGood>>

(***************************************************************************)
(* The specifications: the host, the pacer alone, verifyFile alone.        *)
(***************************************************************************)
Init == HostInit /\ HDMInit /\ FLParked /\ LibParked
Next ==
    \/ Construct \/ RunHost \/ GateClosed \/ GateOpen \/ PumpKeys
    \/ EventsDone \/ EventQuit \/ EventDropFile \/ EventWindow
    \/ Controls
Spec == Init /\ [][Next]_vars

InitFL == FLInit /\ HDMParked /\ HostParked /\ LibParked
NextFL == Check \/ Stall \/ Reconfigure
SpecFL == InitFL /\ [][NextFL]_vars

InitHDM == HDMInit /\ FLParked /\ HostParked /\ LibParked
NextHDM == VerifyFile \/ ClearCore \/ GetError
SpecHDM == InitHDM /\ [][NextHDM]_vars

InitRate ==
    /\ RateInit /\ HDMParked /\ HostParked
    /\ gfcLast = NoGfcCall /\ MBParked /\ MapParked /\ RowParked /\ ViewParked

InitGFC ==
    /\ GfcInit /\ FLParked /\ HostParked /\ flRate = 600
    /\ MBParked /\ MapParked /\ RowParked /\ ViewParked
    /\ HDM = EmptyDescriptor /\ vfLast = NoCall /\ lastGood = EmptyDescriptor
NextGFC == TestGame \/ RecordError \/ ReadError \/ DelCore
SpecGFC == InitGFC /\ [][NextGFC]_vars

InitMB ==
    /\ MBInit /\ FLParked /\ HDMParked /\ HostParked
    /\ flRate = 600 /\ gfcLast = NoGfcCall /\ MapParked
    /\ RowParked /\ ViewParked
NextMB == ModifyViewport \/ FlushBuffers \/ LoadPalette \/ ClearPages
SpecMB == InitMB /\ [][NextMB]_vars

InitMap ==
    /\ MapInit /\ FLParked /\ HDMParked /\ HostParked
    /\ flRate = 600 /\ gfcLast = NoGfcCall /\ MBParked
    /\ RowParked /\ ViewParked
NextMap ==
    \/ Transpose \/ Rotate \/ Shift \/ RowRotate \/ RowShift
    \/ NewMap2D \/ AtWrap
SpecMap == InitMap /\ [][NextMap]_vars

InitRow ==
    /\ RowInit /\ FLParked /\ HDMParked /\ HostParked
    /\ flRate = 600 /\ gfcLast = NoGfcCall /\ MBParked /\ MapParked
    /\ ViewParked
NextRow ==
    DivideAssign \/ ModuloAssign \/ SubtractAssign \/ Subtract \/ Modulo
SpecRow == InitRow /\ [][NextRow]_vars

InitView ==
    /\ ViewInit /\ FLParked /\ HDMParked /\ HostParked
    /\ flRate = 600 /\ gfcLast = NoGfcCall /\ MBParked /\ MapParked
    /\ RowParked
NextView == SetView
SpecView == InitView /\ [][NextView]_vars
NextRate == SetFreq
SpecRate == InitRate /\ [][NextRate]_vars

(***************************************************************************)
(* verifyFile's claims, under SpecHDM.                                     *)
(***************************************************************************)
\* the last call was handed a null path, a path that does not exist or is no
\* regular file, a file that cannot be opened, or a file of no bytes
ClosedCase(c) ==
    /\ c.stage # "never called"
    /\ \/ c.null
       \/ c.fs.stat = "absent"
       \/ c.fs.stat # "regular"
       \/ ~c.fs.opens
       \/ c.size = 0

\* C2: for a null path, a missing path, a path that is no regular file, a
\* file that cannot be opened and a file of no bytes, verifyFile returns
\* false and does not call the validator, whatever the validator would
\* answer, and the call leaves every field of the descriptor as it was.
C2_FailsClosed ==
    /\ [](ClosedCase(vfLast) => (~vfLast.ret /\ ~vfLast.validated))
    /\ [][ClosedCase(vfLast') => HDM' = HDM]_vars

\* a file of no bytes, which opens and reads, was handed in with the
\* validator that accepts everything, while a descriptor was held
C2_Witness ==
    /\ vfLast.stage = "File is empty"
    /\ vfLast.validator = "acceptAll"
    /\ vfLast.fs.stat = "regular" /\ vfLast.fs.opens /\ vfLast.fs.good
    /\ ~vfLast.fs.sizeError
    /\ HDM # EmptyDescriptor

\* C3: the descriptor held is always that of the last file a validator
\* accepted, all six fields of it, and the empty descriptor when none was: a
\* call whose validator answers false changes no field.
C3_DescriptorOfLastAccepted == HDM = lastGood

\* a validator rejected a file of another size than the one held, after an
\* earlier file was accepted
C3_Witness ==
    /\ vfLast.validated /\ ~vfLast.answer
    /\ HDM # EmptyDescriptor
    /\ vfLast.size # HDM.size
    /\ HDM.type = ".txt"

(***************************************************************************)
(* The frame pacer's claims, under SpecFL.                                 *)
(***************************************************************************)
AfterCheck == flRet # "none"

\* C8: a check that finds skipFirstPass armed succeeds whatever time has
\* elapsed and disarms the flag, so the pass is taken once; the check that
\* comes next is not a free pass, and it fails when less than one target
\* period has elapsed since the recorded timestamp.
C8_FirstPassOnce ==
    /\ (AfterCheck /\ flLast.armed) => (flRet = "first" /\ ~Frame.skipFirstPass)
    /\ (AfterCheck /\ flLast.prev = "first") =>
           /\ flRet # "first"
           /\ (flLast.since < Frame.timeFrequency => flRet = "wait")

\* the check after the free pass came too early and failed, and the one after
\* a free pass came late enough and succeeded
C8_Witness ==
    /\ flLast.prev = "first"
    /\ flRet = "wait"
    /\ flLast.since > 0
    /\ Frame.validFrameCnt = 1

\* C9: with skipLostFrame set, after every successful check the recorded
\* overshoot is at least 0 and less than the target period, however many
\* periods had elapsed.
C9_OvershootBelowPeriod ==
    (Frame.skipLostFrame /\ flRet \in {"first", "valid"}) =>
        (0 <= Frame.timeOvershoot /\ Frame.timeOvershoot < Frame.timeFrequency)

\* a check that saw more than two periods elapse and kept a remainder
C9_Witness ==
    /\ Frame.skipLostFrame
    /\ flRet = "valid"
    /\ Frame.timeVariation > 2 * Frame.timeFrequency
    /\ Frame.timeOvershoot > 0

\* C10: with skipLostFrame clear, a successful check records the elapsed time
\* less one period as overshoot, and the lag is caught up: after a check that
\* saw k periods elapse, the next k - 1 checks succeed too, even with no time
\* passing between them.
C10_LagCaughtUp ==
    /\ (~Frame.skipLostFrame /\ flRet = "valid") =>
           Frame.timeOvershoot = Frame.timeVariation - Frame.timeFrequency
    /\ (~Frame.skipLostFrame /\ AfterCheck /\ flLast.owed > 0) => flRet = "valid"

\* the second of three owed checks: it succeeded with no time elapsed since
\* the timestamp, and still owes one more
C10_Witness ==
    /\ ~Frame.skipLostFrame
    /\ flRet = "valid"
    /\ flLast.owed >= 2
    /\ flLast.since = 0
    /\ Owed >= 1

C12_TagOnlyOnPass ==
    /\ gfcLast.op = "testGame" =>
           /\ gfcLast.ret = gfcLast.pass
           /\ gfcLast.pass => sEmuCore = gfcLast.type
           /\ ~gfcLast.pass => sEmuCore = gfcLast.core
    /\ gfcLast.op = "none" => ~hasCore(sEmuCore)
    /\ hasCore(sEmuCore) <=> getCore(sEmuCore) # "INVALID"

\* a failing test for another dialect has left a held tag in place
C12_Witness ==
    /\ gfcLast.op = "testGame" /\ ~gfcLast.pass
    /\ gfcLast.core = "XOCHIP" /\ gfcLast.type = "MEGACHIP"
    /\ sEmuCore = "XOCHIP"

\* C13: getError() returns the recorded reason and leaves none, so that the
\* next getError(), with no failure between, returns the empty string;
\* delCore() leaves neither a tag nor a reason.
C13_ErrorReadOnce ==
    /\ [](/\ gfcLast.op = "getError" =>
                 (gfcLast.ret = gfcLast.err /\ sErrorMsg = "")
          /\ gfcLast.op = "delCore" =>
                 (sEmuCore = INVALID /\ sErrorMsg = ""))
    /\ [][(gfcLast.op = "getError" /\ gfcLast'.op = "getError") =>
              gfcLast'.ret = ""]_vars

\* a recorded reason has been read, with a tag held
C13_Witness ==
    /\ gfcLast.op = "getError"
    /\ gfcLast.ret = "file too large"
    /\ sErrorMsg = ""
    /\ hasCore(sEmuCore)

\* C11: setFreq at rate R leaves the period 1000 / clamp(R, 0.5, 1000) ms:
\* 2000 ms for every rate below 0.5 Hz, 1 ms for every rate above 1000 Hz,
\* and always between 1 ms and 2000 ms.
C11_PeriodClamped ==
    /\ flRate < 5 => Frame.timeFrequency = 2000
    /\ flRate > 10000 => Frame.timeFrequency = 1
    /\ (5 <= flRate /\ flRate <= 10000) =>
           /\ Frame.timeFrequency * flRate <= 10000
           /\ (Frame.timeFrequency + 1) * flRate > 10000
    /\ 1 <= Frame.timeFrequency /\ Frame.timeFrequency <= 2000

\* a live pacer set to a rate far above 1000 Hz, its flags changed with it
C11_Witness ==
    /\ flRate = 1000000
    /\ Frame.timeFrequency = 1
    /\ Frame.skipFirstPass /\ ~Frame.skipLostFrame

(***************************************************************************)
(* The MemoryBanks' claims.                                                *)
(***************************************************************************)
\* whether every cell of a buffer is 0
AllZero(B) == \A i \in 1..size(B) : B.data[i] = 0

\* C14: modifyViewport with multicolor mode off zero-fills every cell of
\* plane 0 and changes no other plane and no other buffer, whatever the
\* operation kind and whatever the selected-plane mask.
C14_ClassicWipesPlaneZero ==
    (mbLast.op = "modifyViewport" /\ ~VM.xochip_color) =>
        /\ AllZero(MB.displayBuffer[1])
        /\ MB.displayBuffer[1].mRows = mbLast.before.displayBuffer[1].mRows
        /\ MB.displayBuffer[1].mCols = mbLast.before.displayBuffer[1].mCols
        /\ \A P \in 2..4 :
               MB.displayBuffer[P] = mbLast.before.displayBuffer[P]
        /\ MB = [mbLast.before EXCEPT !.displayBuffer = MB.displayBuffer]

\* an Add with plane 1 alone selected and multicolor mode off, on a plane 0
\* that held something
C14_Witness ==
    /\ mbLast.op = "modifyViewport" /\ mbLast.type = "ADD"
    /\ ~VM.xochip_color /\ VM.selected = 2
    /\ ~AllZero(mbLast.before.displayBuffer[1])
    /\ AllZero(MB.displayBuffer[1])


\* the foreground after a flush holds the background of before it, as far
\* as both reach, and its own cells beyond that
ForegroundCopied ==
    /\ MB.foregroundBuffer.mRows = mbLast.before.foregroundBuffer.mRows
    /\ MB.foregroundBuffer.mCols = mbLast.before.foregroundBuffer.mCols
    /\ \A i \in 1..size(MB.foregroundBuffer) :
           MB.foregroundBuffer.data[i] =
               IF i <= size(mbLast.before.backgroundBuffer)
               THEN mbLast.before.backgroundBuffer.data[i]
               ELSE mbLast.before.foregroundBuffer.data[i]

\* the background and the collision buffer keep their shape and hold zeros
NextFrameCleared ==
    /\ AllZero(MB.backgroundBuffer) /\ AllZero(MB.collisionPalette)
    /\ size(MB.backgroundBuffer) = size(mbLast.before.backgroundBuffer)
    /\ size(MB.collisionPalette) = size(mbLast.before.collisionPalette)

\* C15, as stated: every flush, the first one too, copies the background
\* onto the foreground before the background and the collision buffer are
\* zeroed.
C15_EveryFlushCopies ==
    mbLast.op = "flushBuffers" => (ForegroundCopied /\ NextFrameCleared)

\* C15, amended: every flush zeroes the background and the collision
\* buffer; a flush other than the first copies the background onto the
\* foreground before that and leaves the palette alone; the first flush
\* zeroes the whole palette and leaves the foreground as it was.
C15_FlushCopiesAfterFirst ==
    mbLast.op = "flushBuffers" =>
        /\ NextFrameCleared
        /\ VM.flushed
        /\ MB.displayBuffer = mbLast.before.displayBuffer
        /\ ~mbLast.firstFlush =>
               /\ ForegroundCopied
               /\ MB.megaPalette = mbLast.before.megaPalette
        /\ mbLast.firstFlush =>
               /\ MB.foregroundBuffer = mbLast.before.foregroundBuffer
               /\ \A k \in DOMAIN MB.megaPalette :
                      MB.megaPalette[k] = ZeroWord

\* a later flush that put a nonzero background onto the foreground
C15_Witness ==
    /\ mbLast.op = "flushBuffers" /\ ~mbLast.firstFlush
    /\ ~AllZero(mbLast.before.backgroundBuffer)
    /\ MB.foregroundBuffer # mbLast.before.foregroundBuffer
    /\ MB.foregroundBuffer.data[1] = mbLast.before.backgroundBuffer.data[1]
    /\ AllZero(MB.backgroundBuffer)


\* C16: loadPalette(startAddress, count) writes palette slots 1..count and
\* no other: slot k holds the four bytes of program memory from
\* startAddress + 4(k-1), the first of them the most significant; slot 0
\* and the slots above count keep their values, and count = 0 writes
\* nothing.  The slots written lie inside the palette and the bytes read
\* inside the memory.
C16_PaletteSlotsFromOne ==
    mbLast.op = "loadPalette" =>
        /\ \A k \in DOMAIN MB.megaPalette :
               IF 1 <= k /\ k <= mbLast.count
               THEN LET a == mbLast.index + 4 * (k - 1) IN
                    /\ MB.megaPalette[k].hi \div 256 = VM.mem[a]
                    /\ MB.megaPalette[k].hi % 256 = VM.mem[a + 1]
                    /\ MB.megaPalette[k].lo \div 256 = VM.mem[a + 2]
                    /\ MB.megaPalette[k].lo % 256 = VM.mem[a + 3]
               ELSE MB.megaPalette[k] = mbLast.before.megaPalette[k]
        /\ DOMAIN MB.megaPalette = DOMAIN mbLast.before.megaPalette
        /\ MB = [mbLast.before EXCEPT !.megaPalette = MB.megaPalette]
        /\ mbLast.count = 0 => MB = mbLast.before

\* two entries loaded from an odd address into a palette that held colours:
\* slots 1 and 2 change, slots 0 and 3 keep theirs
C16_Witness ==
    /\ mbLast.op = "loadPalette" /\ mbLast.count = 2 /\ mbLast.index = 1
    /\ mbLast.before.megaPalette[0] # ZeroWord
    /\ MB.megaPalette[0] = mbLast.before.megaPalette[0]
    /\ MB.megaPalette[1] # mbLast.before.megaPalette[1]
    /\ MB.megaPalette[2] # MB.megaPalette[1]
    /\ MB.megaPalette[3] = mbLast.before.megaPalette[3]


\* the row of plane 0 that cell i lies in
RowOf(i) == (i - 1) \div MB.displayBuffer[1].mCols

\* C17: clearPages(fromRow) zero-fills rows fromRow+1 .. Plane.H of plane 0
\* and changes nothing else: rows 0..fromRow and the rows below Plane.H keep
\* their cells, the other planes and buffers are untouched, and with
\* fromRow at or beyond Plane.H nothing is modified.  Plane.H is a row of
\* the plane.
C17_ClearsRowsBelow ==
    mbLast.op = "clearPages" =>
        /\ \A i \in 1..size(MB.displayBuffer[1]) :
               MB.displayBuffer[1].data[i] =
                   IF mbLast.H + 1 <= RowOf(i) /\ RowOf(i) <= VM.H
                   THEN 0
                   ELSE mbLast.before.displayBuffer[1].data[i]
        /\ MB.displayBuffer[1].mRows = mbLast.before.displayBuffer[1].mRows
        /\ MB.displayBuffer[1].mCols = mbLast.before.displayBuffer[1].mCols
        /\ \A P \in 2..4 :
               MB.displayBuffer[P] = mbLast.before.displayBuffer[P]
        /\ MB = [mbLast.before EXCEPT !.displayBuffer = MB.displayBuffer]
        /\ mbLast.H >= VM.H => MB = mbLast.before

\* clearPages(0) with Plane.H = 2 on a plane of three rows that held
\* something in each: row 0 kept, rows 1 and 2 zero
C17_Witness ==
    /\ mbLast.op = "clearPages" /\ mbLast.H = 0 /\ VM.H = 2
    /\ mbLast.before.displayBuffer[1].data = <<1, 1, 1, 1, 1, 1>>
    /\ MB.displayBuffer[1].data = <<1, 1, 0, 0, 0, 0>>

(***************************************************************************)
(* The buffer library's claims.                                            *)
(***************************************************************************)
\* the buffer left by call k of the log
After(k) == IF k < Len(gridLog) THEN gridLog[k + 1].before ELSE Grid

\* C18: transpose on an R x C buffer of any shape, 1 x N and N x 1
\* included, leaves a C x R buffer whose cell (c, r) is the original cell
\* (r, c); transpose applied twice restores the dimensions and the contents.
C18_TransposeSwapsAxes ==
    /\ \A k \in 1..Len(gridLog) :
           gridLog[k].op = "transpose" =>
               LET B == gridLog[k].before
                   A == After(k)
               IN  /\ A.mRows = B.mCols /\ A.mCols = B.mRows
                   /\ Len(A.data) = Len(B.data)
                   /\ \A r \in 0..(B.mRows - 1), c \in 0..(B.mCols - 1) :
                          Cell(A, c, r) = Cell(B, r, c)
    /\ (/\ Len(gridLog) = 2
        /\ gridLog[1].op = "transpose" /\ gridLog[2].op = "transpose")
           => Grid = gridLog[1].before

\* the 2 x 3 buffer 1..6 transposed to rows <<1, 4>>, <<2, 5>>, <<3, 6>> and
\* transposed back
C18_Witness ==
    /\ Len(gridLog) = 2
    /\ gridLog[1].op = "transpose" /\ gridLog[2].op = "transpose"
    /\ gridLog[1].before = Buf(2, 3, <<1, 2, 3, 4, 5, 6>>)
    /\ gridLog[2].before = Buf(3, 2, <<1, 4, 2, 5, 3, 6>>)
    /\ Grid = Buf(2, 3, <<1, 2, 3, 4, 5, 6>>)


\* the index (i + n) mod length, for n of either sign
Wrapped(i, n, length) == (((i + n) % length) + length) % length

\* row r of buffer A is row r of buffer B rotated by n: the cell at index i
\* went to index (i + n) mod length, and every value is there as often as
\* it was
RowIsRotated(A, B, r, n) ==
    /\ \A i \in 0..(B.mCols - 1) :
           Cell(A, r, Wrapped(i, n, B.mCols)) = Cell(B, r, i)
    /\ \A i \in 0..(B.mCols - 1) :
           Cardinality({ j \in 0..(B.mCols - 1) : Cell(A, r, j) = Cell(B, r, i) })
         = Cardinality({ j \in 0..(B.mCols - 1) : Cell(B, r, j) = Cell(B, r, i) })

\* C19: rotating a row by n moves the cell at index i to index
\* (i + n) mod length for every integer n, |n| >= length included: to the
\* right for n >= 0, to the left for n < 0; no value is lost or duplicated.
\* This holds of RowProxy::rotate(n) on one row, which leaves the other rows
\* alone, and of Map2D::rotate(0, n) on every row.
C19_RowRotationCyclic ==
    \A k \in 1..Len(gridLog) :
        LET B == gridLog[k].before
            A == After(k)
        IN  /\ gridLog[k].op = "row.rotate" =>
                /\ A.mRows = B.mRows /\ A.mCols = B.mCols
                /\ RowIsRotated(A, B, gridLog[k].a, gridLog[k].b)
                /\ \A r \in 0..(B.mRows - 1) :
                       r # gridLog[k].a => RowCells(A, r) = RowCells(B, r)
            /\ (gridLog[k].op = "rotate" /\ gridLog[k].a = 0) =>
                /\ ~gridLog[k].fault
                /\ A.mRows = B.mRows /\ A.mCols = B.mCols
                /\ \A r \in 0..(B.mRows - 1) :
                       RowIsRotated(A, B, r, gridLog[k].b)

\* the second row of a 2 x 4 buffer rotated by -5: one place to the left,
\* the first row as it was
C19_Witness ==
    /\ Len(gridLog) = 1 /\ gridLog[1].op = "row.rotate"
    /\ gridLog[1].a = 1 /\ gridLog[1].b = -5
    /\ gridLog[1].before = Buf(2, 4, <<1, 2, 3, 4, 5, 6, 7, 8>>)
    /\ Grid = Buf(2, 4, <<1, 2, 3, 4, 6, 7, 8, 5>>)


\* whether (r, c) is a cell of buffer B
Inside(B, r, c) == 0 <= r /\ r < B.mRows /\ 0 <= c /\ c < B.mCols

\* C20: shift(rows, cols) scrolls without wrapping: afterwards cell (r, c)
\* holds the original cell (r - rows, c - cols) when that lies inside the
\* buffer and zero otherwise; the whole buffer is zero when |rows| >= the
\* row count or |cols| >= the column count; nothing shifted out comes back
\* on the opposite side.
C20_ShiftScrolls ==
    \A k \in 1..Len(gridLog) :
        gridLog[k].op = "shift" =>
            LET B == gridLog[k].before
                A == After(k)
                rows == gridLog[k].a
                cols == gridLog[k].b
            IN  /\ A.mRows = B.mRows /\ A.mCols = B.mCols
                /\ \A r \in 0..(B.mRows - 1), c \in 0..(B.mCols - 1) :
                       Cell(A, r, c) =
                           IF Inside(B, r - rows, c - cols)
                           THEN Cell(B, r - rows, c - cols)
                           ELSE 0
                /\ (Abs(rows) >= B.mRows \/ Abs(cols) >= B.mCols)
                       => AllZero(A)

\* a 3 x 3 buffer of distinct cells scrolled one row down and one column to
\* the left: the top row and the right column are zero, the rest moved
C20_Witness ==
    /\ Len(gridLog) = 1 /\ gridLog[1].op = "shift"
    /\ gridLog[1].a = 1 /\ gridLog[1].b = -1
    /\ gridLog[1].before = Buf(3, 3, <<1, 2, 3, 4, 5, 6, 7, 8, 9>>)
    /\ Grid = Buf(3, 3, <<0, 0, 0, 2, 3, 0, 5, 6, 0>>)

(***************************************************************************)
(* The rows' claims.                                                       *)
(***************************************************************************)
\* the length the row operators work on
Common == Min(Len(rowLast.before), Len(rowB))

\* the indices below the common length where rowB holds 0
ZeroAt == { k \in 1..Common : rowB[k] = 0 }

\* q is a / b truncated, r the remainder that goes with it
IsQuotient(q, a, b) ==
    \E r \in (-Abs(b) + 1)..(Abs(b) - 1) :
        /\ a = q * b + r
        /\ (r = 0 \/ (r < 0) = (a < 0))
IsRemainder(r, a, b) ==
    /\ -Abs(b) < r /\ r < Abs(b)
    /\ (r = 0 \/ (r < 0) = (a < 0))
    /\ \E q \in (-Abs(a))..Abs(a) : a = q * b + r

\* C21: A /= B and A %= B with a row operand: where k is the first index
\* below min(len A, len B) with B[k] = 0, the operator raises the domain
\* error and does not roll back: the cells before k hold the quotient (the
\* remainder), the cells from k on are as they were; with no such k nothing
\* is raised and every cell below the common length holds the quotient (the
\* remainder).
C21_DivisionStopsAtZero ==
    (rowLast.op = "/=" \/ rowLast.op = "%=") =>
        LET stop == IF ZeroAt = {} THEN Common + 1
                    ELSE CHOOSE k \in ZeroAt : \A j \in ZeroAt : k <= j
        IN  /\ rowLast.thrown = (ZeroAt # {})
            /\ Len(rowA) = Len(rowLast.before)
            /\ \A i \in 1..Len(rowA) :
                   IF i < stop
                   THEN IF rowLast.op = "/="
                        THEN IsQuotient(rowA[i], rowLast.before[i], rowB[i])
                        ELSE IsRemainder(rowA[i], rowLast.before[i], rowB[i])
                   ELSE rowA[i] = rowLast.before[i]

\* <<-7, 3, 3>> /= <<3, 0, 3>>: the error is raised at index 1 with index 0
\* already divided and the rest untouched
C21_Witness ==
    /\ rowLast.op = "/=" /\ rowLast.thrown
    /\ rowLast.before = <<-7, 3, 3>> /\ rowB = <<3, 0, 3>>
    /\ rowA = <<-2, 3, 3>>


\* C22: A -= B with a row operand sets A[i] to A[i] - B[i] for every i
\* below min(len A, len B), leaves the cells from there on unchanged, and
\* gives the row that A - B returns.
C22_SubtractAssignSubtracts ==
    rowLast.op = "-=" =>
        /\ Len(rowA) = Len(rowLast.before)
        /\ \A i \in 1..Len(rowA) :
               rowA[i] = IF i <= Common
                         THEN rowLast.before[i] - rowB[i]
                         ELSE rowLast.before[i]
        /\ rowA = Subtracted(rowLast.before, rowB)

\* C23: A % B with a row operand whose cells are nonzero returns a row whose
\* cell i is the remainder of A[i] by B[i] for i below min(len A, len B),
\* the row that A %= B leaves, and does not change A.
C23_ModuloReturnsRemainder ==
    (rowLast.op = "%" /\ \A i \in 1..Len(rowB) : rowB[i] # 0) =>
        /\ ~rowLast.thrown
        /\ rowA = rowLast.before
        /\ Len(rowLast.ret) = Len(rowA)
        /\ \A i \in 1..Len(rowA) :
               IF i <= Common
               THEN IsRemainder(rowLast.ret[i], rowA[i], rowB[i])
               ELSE rowLast.ret[i] = rowA[i]
        /\ rowLast.ret = ModuloAssigned(rowA, rowB).row


\* C24: Map2D(rows, cols) has max(1, |rows|) rows and max(1, |cols|)
\* columns, each axis on its own, for every pair of integers, zero and
\* negative ones included; size() is the product of the two.
C24_DimensionsAtLeastOne ==
    \A k \in 1..Len(gridLog) :
        gridLog[k].op = "Map2D" =>
            LET A == After(k)
                rows == gridLog[k].a
                cols == gridLog[k].b
            IN  /\ A.mRows >= 1 /\ A.mRows >= rows /\ A.mRows >= -rows
                /\ A.mRows \in {1, rows, -rows}
                /\ A.mCols >= 1 /\ A.mCols >= cols /\ A.mCols >= -cols
                /\ A.mCols \in {1, cols, -cols}
                /\ size(A) = A.mRows * A.mCols
                /\ Len(A.data) = size(A)

\* Map2D(0, -3) is 1 x 3
C24_Witness ==
    /\ Len(gridLog) = 1 /\ gridLog[1].op = "Map2D"
    /\ gridLog[1].a = 0 /\ gridLog[1].b = -3
    /\ Grid = Buf(1, 3, <<0, 0, 0>>)


\* C29: Map2D::rotate(rows, 0) is periodic in the row count: for every
\* integer rows, |rows| above the row count included, it leaves the buffer
\* that rotating by rows mod the row count leaves, row r going to row
\* (r + rows) mod the row count, and it addresses no element outside the
\* buffer.
C29_VerticalRotationPeriodic ==
    \A k \in 1..Len(gridLog) :
        (gridLog[k].op = "rotate" /\ gridLog[k].b = 0) =>
            LET B == gridLog[k].before
                A == After(k)
            IN  /\ ~gridLog[k].fault
                /\ RotateDefined(B, gridLog[k].a)
                /\ A.mRows = B.mRows /\ A.mCols = B.mCols
                /\ \A r \in 0..(B.mRows - 1) :
                       RowCells(A, Wrapped(r, gridLog[k].a, B.mRows))
                           = RowCells(B, r)

\* C30: at_wrap(row, col) returns the cell at (row mod the row count,
\* col mod the column count) for every row and col that are not negative
\* and every shape of buffer, and never a cell outside the buffer.
C30_AtWrapIsModulo ==
    \A k \in 1..Len(gridLog) :
        gridLog[k].op = "at_wrap" =>
            LET B == gridLog[k].before IN
            /\ 0 <= gridLog[k].ret /\ gridLog[k].ret < size(B)
            /\ gridLog[k].ret =
                   (gridLog[k].a % B.mRows) * B.mCols + (gridLog[k].b % B.mCols)

(***************************************************************************)
(* The views' claim.                                                       *)
(***************************************************************************)
\* every cell (y, x) of the view refers to the base's cell
\* ((y + posY) mod its rows, (x + posX) mod its columns)
WrapsOntoBase ==
    /\ Len(View.ptr) = View.mRows * View.mCols
    /\ \A y \in 0..(View.mRows - 1), x \in 0..(View.mCols - 1) :
           View.ptr[y * View.mCols + x + 1] =
               ViewBase.ptr[Wrapped(y, viewLast.posY, ViewBase.mRows)
                                * ViewBase.mCols
                            + Wrapped(x, viewLast.posX, ViewBase.mCols) + 1]

\* C25: setView with rows = 0 keeps the view's row count and with cols = 0
\* keeps its column count, and every cell (y, x) of the re-seated view
\* refers to base cell ((y + posY) mod baseRows, (x + posX) mod baseCols),
\* the modulo being safe for negative positions.
C25_SetViewKeepsSizeOnZero ==
    viewLast.op = "setView" =>
        /\ viewLast.rows = 0 => View.mRows = viewLast.before.mRows
        /\ viewLast.cols = 0 => View.mCols = viewLast.before.mCols
        /\ viewLast.rows # 0 => View.mRows = Abs(viewLast.rows)
        /\ viewLast.cols # 0 => View.mCols = Abs(viewLast.cols)
        /\ WrapsOntoBase

(***************************************************************************)
(* The host's claims.                                                      *)
(***************************************************************************)
RECURSIVE Count(_, _)
Count(call, calls) ==
    IF calls = <<>> THEN 0
    ELSE (IF Head(calls) = call THEN 1 ELSE 0) + Count(call, Tail(calls))

Has(call, calls) == \E i \in 1..Len(calls) : calls[i] = call

\* the step of Next that handles a dropped file which verifyFile refuses
\* while a program is loaded
RejectedDropWhileLoaded ==
    /\ nEvents' = nEvents + 1
    /\ lastEvent'.type = "drop"
    /\ lastEvent'.loaded
    /\ ~lastEvent'.accepted

\* C1: a dropped file that verifyFile refuses while a program is loaded
\* leaves the session as it was: initGameCore and setLimiter are not called,
\* and the interpreter, the pacer, the descriptor and the tag are unchanged.
C1_RejectedDropLeavesSession ==
    [][RejectedDropWhileLoaded =>
           /\ Count("initGameCore", trace') = Count("initGameCore", trace)
           /\ Count("setLimiter", trace') = Count("setLimiter", trace)
           /\ Guest' = Guest
           /\ Frame' = Frame
           /\ HDM' = HDM
           /\ sEmuCore' = sEmuCore]_vars

\* the part of C1 the host keeps: the descriptor and the tag are unchanged
C1_DescriptorAndTagKept ==
    [][RejectedDropWhileLoaded => (HDM' = HDM /\ sEmuCore' = sEmuCore)]_vars

\* the step of Next that runs the controls with ESCAPE newly pressed
EscapePressed ==
    /\ pc = "controls" /\ pc' # "controls"
    /\ isPressed(kbCur, kbPrev, "ESCAPE")

\* C4: ESCAPE pressed while a program is loaded clears the tag, resets the
\* descriptor and goes on looping without a return; ESCAPE pressed with no
\* program makes runHost return 0.
C4_EscapeEjectsOrQuits ==
    [][EscapePressed =>
           IF hasCore(sEmuCore)
           THEN /\ sEmuCore' = INVALID
                /\ HDM'.path = <<>> /\ HDM'.name = "" /\ HDM'.type = ""
                /\ HDM'.sha1 = <<>> /\ HDM'.size = 0
                /\ pc' = "gate" /\ exitStatus' = "running"
           ELSE /\ pc' = "exit" /\ exitStatus' = 0]_vars

\* runHost has returned on ESCAPE, after a program was loaded and ejected
C4_Witness ==
    /\ pc = "exit" /\ exitStatus = 0
    /\ Has("controls", trace)
    /\ "ESCAPE" \in kbCur /\ "ESCAPE" \notin kbPrev
    /\ sEmuCore = INVALID
    /\ HDM.path = <<>> /\ HDM.file # <<>>

\* where a call stands in an iteration: event handling, controls, the
\* interpreter's frame, the present, the commit and what follows it
Rank(call) ==
    CASE call \in {"eventLoopSDL", "stdLogOut"} -> 0
      [] call \in {"controls", "changeVolume", "changeFrameMultiplier",
                   "changeCPF"} -> 1
      [] call = "processFrame" -> 2
      [] call = "renderPresent" -> 3
      [] OTHER -> 4

InIteration == trace # <<>> /\ trace[1] = "eventLoopSDL"

\* C5: the calls of one iteration come in the order event handling, controls,
\* interpreter frame, present, commit; no commit comes before the controls
\* or the interpreter frame of its iteration.
C5_IterationOrder ==
    InIteration =>
        \A i \in 1..Len(trace) : \A j \in i..Len(trace) :
            Rank(trace[i]) <= Rank(trace[j])

\* C6: an iteration commits the input snapshot once: never twice, and once
\* when it is back at the frame gate.
C6_OneCommitPerBatch ==
    InIteration =>
        /\ Count("updateCopy", trace) <= 1
        /\ pc = "gate" => Count("updateCopy", trace) = 1

\* the step of Next that runs the controls
ControlsRun == pc = "controls" /\ pc' # "controls"

Up(m) == IF m + 1 > MaxMultiplier THEN MaxMultiplier ELSE m + 1
Down(m) == IF m - 1 < 1 THEN 1 ELSE m - 1

\* what PAGEDOWN and PAGEUP, read in that order, make of the multiplier
Scaled(m) ==
    LET d == IF isPressed(kbCur, kbPrev, "PAGEDOWN") THEN Down(m) ELSE m
    IN  IF isPressed(kbCur, kbPrev, "PAGEUP") THEN Up(d) ELSE d

\* whether this run of the controls gets as far as the two keys
ReachesPageKeys ==
    /\ hasCore(sEmuCore)
    /\ ~isPressed(kbCur, kbPrev, "ESCAPE")
    /\ ~isPressed(kbCur, kbPrev, "BACKSPACE")

\* C7, as stated: in every state of the host, with or without a program, the
\* controls move the multiplier up one for PAGEUP and down one for PAGEDOWN,
\* within its limits.
C7_PageKeysAlways ==
    [][ControlsRun => frameMultiplier' = Scaled(frameMultiplier)]_vars

\* C7, amended: the controls move the multiplier up one for PAGEUP and down
\* one for PAGEDOWN, within its limits, when a program is loaded and neither
\* ESCAPE nor BACKSPACE is newly pressed; otherwise, and in every other
\* step, the multiplier stays.
C7_PageKeysWhileLoaded ==
    [][IF ControlsRun /\ ReachesPageKeys
       THEN frameMultiplier' = Scaled(frameMultiplier)
       ELSE frameMultiplier' = frameMultiplier]_vars

\* PAGEUP alone has been read with a program loaded, and the multiplier is
\* at its largest
C7_Witness ==
    /\ pc = "gate"
    /\ Count("changeFrameMultiplier", trace) = 1
    /\ Has("processFrame", trace)
    /\ "PAGEUP" \in kbPrev /\ "PAGEDOWN" \notin kbPrev
    /\ frameMultiplier = MaxMultiplier


\* C27: whenever no dialect tag is held the benchmarking flag is off, so that
\* a program loaded after an eject starts outside the benchmarking mode.
C27_IdleNeverBenchmarking == ~hasCore(sEmuCore) => ~doBench


\* runHost's return on ESCAPE needs no program and a rising edge, and ESCAPE
\* leaves the snapshot only by a commit that finds the key up
QuitNeedsSecondPress ==
    /\ (pc = "controls" /\ pc' = "exit") =>
           (~hasCore(sEmuCore) /\ isPressed(kbCur, kbPrev, "ESCAPE"))
    /\ ("ESCAPE" \in kbPrev /\ "ESCAPE" \notin kbPrev') =>
           ("ESCAPE" \notin kbCur /\ kbCur' = kbCur)

\* the step that commits an ESCAPE press made while a program is loaded
PressCommitted ==
    /\ hasCore(sEmuCore)
    /\ isPressed(kbCur, kbPrev, "ESCAPE")
    /\ "ESCAPE" \in kbPrev'

====
